---- MODULE Spec2Model ----
(***************************************************************************)
(* ffetch: the render pass.  A renderer walks the ordered probe list,      *)
(* invokes each probe, formats the values it returns and prints the lines. *)
(* Three draw functions are modelled:                                      *)
(*   "Neofetch"       src/renderer/neofetch.rs      NeofetchRenderer::draw *)
(*   "Macchina"       src/renderer/macchina/mod.rs  MacchinaRenderer::draw *)
(*   "MacchinaEarly"  src/renderer/macchina.rs      MacchinaRenderer::draw *)
(* Text is modelled as TLA+ strings; colour styling (console::style) adds *)
(* no visible column and is left out of the printed text.                  *)
(*                                                                         *)
(* Five specifications share the variables:                                *)
(*   Spec        a render pass: the probe list is built, then drawn        *)
(*   ConfigSpec  a preset or file configuration is built and resolved      *)
(*   OnceSpec    threads call the platform handle accessors                *)
(*   FormatSpec  one value is given to a formatter                         *)
(*   MainSpec    one run of main, or one call of Config::generate_default  *)
(* Each leaves the variables of the others at rest.                        *)
(***************************************************************************)
EXTENDS Integers, Sequences, FiniteSets, TLC

VARIABLES
    renderer,     \* which draw function runs
    config,       \* NeofetchRendererConfig flags: [title, underline]
    probes,       \* config.probes: the configured entries, in order
    probe_list,   \* ordered list of [title, probe], built before draw
    platform,     \* what the platform readouts return in this run
    pc,           \* position inside draw
    i,            \* index of the entry the loop is at
    results,      \* formatted values of the entry being printed
    art_iter,     \* number of art rows consumed (Macchina)
    out,          \* lines printed to standard output, oldest first
    ret,          \* "Running", "Ok" or "ReadoutError"
    calls,        \* probe invocations so far: [entry, printed], oldest first
    handles,      \* platform handles initialised so far
    cfg,          \* state of a preset construction and resolution
    once,         \* state of the OnceLock cells and of their callers
    fmt,          \* state of one value formatting
    main          \* state of one run of main or of Config::generate_default

vars == <<renderer, config, probes, probe_list, platform, pc, i, results, art_iter,
          out, ret, calls, handles, cfg, once, fmt, main>>

(***************************************************************************)
(* Bounds of the model.                                                    *)
(***************************************************************************)
MaxEntries == 2
MaxGpus == 11

(***************************************************************************)
(* Text helpers.                                                           *)
(***************************************************************************)
Max(a, b) == IF a >= b THEN a ELSE b

RECURSIVE Repeat(_, _)
Repeat(s, n) == IF n <= 0 THEN "" ELSE s \o Repeat(s, n - 1)

\* Rust "{:width$}" on a string: left-aligned, space-filled, never truncated.
\* Labels are ASCII here, so the byte length title.len() is the column count.
Pad(s, width) == s \o Repeat(" ", width - Len(s))

RECURSIVE Join(_, _)
Join(strs, sep) ==
    IF Len(strs) = 0 THEN ""
    ELSE IF Len(strs) = 1 THEN strs[1]
    ELSE strs[1] \o sep \o Join(Tail(strs), sep)

\* `as i32` on a non-negative float: saturating.
I32(x) == IF x > 2147483647 THEN 2147483647 ELSE x

\* f64::round of n/d for n >= 0, d > 0: half away from zero.
RoundDiv(n, d) == (2 * n + d) \div (2 * d)

RECURSIVE MaxLen(_)
MaxLen(titles) ==
    IF Len(titles) = 0 THEN 0 ELSE Max(Len(titles[1]), MaxLen(Tail(titles)))

Titles(pl) == [k \in 1..Len(pl) |-> pl[k].title]

(***************************************************************************)
(* ASCII art.  The grave accents of rows 2 and 19 are written as          *)
(* apostrophes (a TLA+ string cannot hold a grave accent); row widths are  *)
(* unchanged.                                                              *)
(***************************************************************************)
ASCII_ART_UBUNTU ==
    << "            .-/+oossssoo+/-.            ",
       "        ':+ssssssssssssssssss+:'        ",
       "      -+ssssssssssssssssssyyssss+-      ",
       "    .ossssssssssssssssssdMMMNysssso.    ",
       "   /ssssssssssshdmmNNmmyNMMMMhssssss/   ",
       "  +ssssssssshmydMMMMMMMNddddyssssssss+  ",
       " /sssssssshNMMMyhhyyyyhmNMMMNhssssssss/ ",
       ".ssssssssdMMMNhsssssssssshNMMMdssssssss.",
       "+sssshhhyNMMNyssssssssssssyNMMMysssssss+",
       "ossyNMMMNyMMhsssssssssssssshmmmhssssssso",
       "ossyNMMMNyMMhsssssssssssssshmmmhssssssso",
       "+sssshhhyNMMNyssssssssssssyNMMMysssssss+",
       ".ssssssssdMMMNhsssssssssshNMMMdssssssss.",
       " /sssssssshNMMMyhhyyyyhdNMMMNhssssssss/ ",
       "  +sssssssssdmydMMMMMMMMddddyssssssss+  ",
       "   /ssssssssssshdmNNNNmyNMMMMhssssss/   ",
       "    .ossssssssssssssssssdMMMNysssso.    ",
       "      -+sssssssssssssssssyyyssss+-      ",
       "        ':+ssssssssssssssssss+:'        ",
       "            .-/+oossssoo+/-.            " >>

ASCII_ART_UBUNTU_FILLER == "                                        "

\* The art block and filler MacchinaRenderer::draw imports.
ASCII_ART == ASCII_ART_UBUNTU

ASCII_ART_FILLER == ASCII_ART_UBUNTU_FILLER

(***************************************************************************)
(* ProbeValue, ProbeResultValue, ProbeError.                               *)
(***************************************************************************)
ProbeValue(kind, n, s, counts) == [kind |-> kind, n |-> n, s |-> s, counts |-> counts]

Uptime(secs) == ProbeValue("Uptime", secs, "", <<>>)
Shell(s) == ProbeValue("Shell", 0, s, <<>>)
GPU(s) == ProbeValue("GPU", 0, s, <<>>)
TerminalFont(s) == ProbeValue("TerminalFont", 0, s, <<>>)
\* counts: sequence of <<manager, count>>
Packages(counts) == ProbeValue("Packages", 0, "", counts)

\* A u64 of the program, held as hi * 2^30 + lo with lo < 2^30 (the model's
\* integers are 32 bits wide); the model covers hi < 2^23.
U64(hi, lo) == [hi |-> hi, lo |-> lo]
Memory(used, total) == [kind |-> "Memory", used |-> U64(0, used), total |-> U64(0, total)]
Disk(used, total) == [kind |-> "Disk", used |-> used, total |-> total]
CPUUsage(cpu_usage) == ProbeValue("CPUUsage", cpu_usage, "", <<>>)
Battery(battery) == ProbeValue("Battery", battery, "", <<>>)

\* local_ip: the addresses, in order
LocalIP(local_ip) == [kind |-> "LocalIP", n |-> 0, s |-> "", counts |-> <<>>,
                      local_ip |-> local_ip]

NoError == [kind |-> "None", msg |-> ""]
Single(value) == [tag |-> "Single", values |-> <<value>>, err |-> NoError]
Multiple(values) == [tag |-> "Multiple", values |-> values, err |-> NoError]
Err(e) == [tag |-> "Err", values |-> <<>>, err |-> e]

\* ReadoutError of the platform readout library.
ReadoutErrors ==
    { [kind |-> "MetricNotAvailable", msg |-> ""],
      [kind |-> "NotImplemented", msg |-> ""],
      [kind |-> "Other", msg |-> "driver not found"],
      [kind |-> "Other", msg |-> "stale"],
      [kind |-> "Warning", msg |-> "stale"] }

\* Faulty variant of From_ReadoutError: a warning becomes Other.
From_ReadoutError_warningAsOther(e) ==
    CASE e.kind = "MetricNotAvailable" -> [kind |-> "MetricsUnavailable", msg |-> ""]
      [] e.kind = "NotImplemented" -> [kind |-> "Unimplemented", msg |-> ""]
      [] e.kind = "Other" -> [kind |-> "Other", msg |-> e.msg]
      [] e.kind = "Warning" -> [kind |-> "Other", msg |-> e.msg]

\* impl From<ReadoutError> for ProbeError
From_ReadoutError(e) ==
    CASE e.kind = "MetricNotAvailable" -> [kind |-> "MetricsUnavailable", msg |-> ""]
      [] e.kind = "NotImplemented" -> [kind |-> "Unimplemented", msg |-> ""]
      [] e.kind = "Other" -> [kind |-> "Other", msg |-> e.msg]
      [] e.kind = "Warning" -> [kind |-> "Warning", msg |-> e.msg]

\* A readout result: Ok(val) or Err(err).
ROk(v) == [ok |-> TRUE, val |-> v, err |-> NoError]
RErr(e) == [ok |-> FALSE, val |-> "", err |-> e]

(***************************************************************************)
(* Uptime formatting.  A formatter yields the units it shows, largest      *)
(* first, as [n, unit] records; the text is built from them.               *)
(***************************************************************************)
Unit(n, unit) == [n |-> n, unit |-> unit]

\* NeofetchRenderer::probe_config_to_string, Uptime arm: the four components.
NeofetchDays(uptime) == I32(RoundDiv(uptime, 60 * 60 * 24))
NeofetchHours(uptime) == I32(RoundDiv(uptime % (60 * 60 * 24), 60 * 60))
NeofetchMinutes(uptime) == I32(RoundDiv(uptime % (60 * 60), 60))
NeofetchSeconds(uptime) == I32(uptime % 60)

\* Faulty variant of NeofetchUptimeUnits: the hours test comes first.
NeofetchUptimeUnits_hoursFirst(uptime) ==
    LET days == NeofetchDays(uptime)
        hours == NeofetchHours(uptime)
        minutes == NeofetchMinutes(uptime)
        seconds == NeofetchSeconds(uptime)
    IN  IF hours > 0
        THEN <<Unit(hours, "hours"), Unit(minutes, "mins")>>
        ELSE IF days > 0
        THEN <<Unit(days, "days"), Unit(hours, "hours"), Unit(minutes, "mins")>>
        ELSE IF minutes > 0
        THEN <<Unit(minutes, "mins")>>
        ELSE <<Unit(seconds, "seconds")>>

NeofetchUptimeUnits(uptime) ==
    LET days == NeofetchDays(uptime)
        hours == NeofetchHours(uptime)
        minutes == NeofetchMinutes(uptime)
        seconds == NeofetchSeconds(uptime)
    IN  IF days > 0
        THEN <<Unit(days, "days"), Unit(hours, "hours"), Unit(minutes, "mins")>>
        ELSE IF hours > 0
        THEN <<Unit(hours, "hours"), Unit(minutes, "mins")>>
        ELSE IF minutes > 0
        THEN <<Unit(minutes, "mins")>>
        ELSE <<Unit(seconds, "seconds")>>

\* "{} days, {} hours, {} mins" and its shorter forms.
LongUnitsText(units) ==
    Join([k \in 1..Len(units) |-> ToString(units[k].n) \o " " \o units[k].unit], ", ")

\* ProbeValue::to_string, Uptime arm (the same computation, in probe.rs).
ToStringUptimeUnits(uptime) ==
    LET days == I32(RoundDiv(uptime, 60 * 60 * 24))
        hours == I32(RoundDiv(uptime % (60 * 60 * 24), 60 * 60))
        minutes == I32(RoundDiv(uptime % (60 * 60), 60))
        seconds == I32(uptime % 60)
    IN  IF days > 0
        THEN <<Unit(days, "days"), Unit(hours, "hours"), Unit(minutes, "mins")>>
        ELSE IF hours > 0
        THEN <<Unit(hours, "hours"), Unit(minutes, "mins")>>
        ELSE IF minutes > 0
        THEN <<Unit(minutes, "mins")>>
        ELSE <<Unit(seconds, "seconds")>>

\* MacchinaRenderer::probe_config_to_string, Uptime arm: floor, no seconds.
MacchinaDays(uptime) == I32(uptime \div (60 * 60 * 24))
MacchinaHours(uptime) == I32((uptime % (60 * 60 * 24)) \div (60 * 60))
MacchinaMinutes(uptime) == I32((uptime % (60 * 60)) \div 60)

MacchinaUptimeUnits(uptime) ==
    LET days == MacchinaDays(uptime)
        hours == MacchinaHours(uptime)
        minutes == MacchinaMinutes(uptime)
    IN  (IF days > 0 THEN <<Unit(days, "d")>> ELSE <<>>)
        \o (IF hours > 0 THEN <<Unit(hours, "h")>> ELSE <<>>)
        \o (IF minutes > 0 THEN <<Unit(minutes, "m")>> ELSE <<>>)

\* "{}d ", "{}h ", "{}m " concatenated.
ShortUnitsText(units) ==
    Join([k \in 1..Len(units) |-> ToString(units[k].n) \o units[k].unit \o " "], "")

(***************************************************************************)
(* Value formatters.                                                       *)
(***************************************************************************)
\* "{count} ({manager})" for each pair, joined by ", ".
(***************************************************************************)
(* f32 arithmetic.  A finite non-negative f32 is m * 2^e with a mantissa   *)
(* m <= 2^24; every operation rounds its exact result to 24 bits, ties to  *)
(* even, as the hardware does.  cls is "fin", "nan" or "inf".              *)
(***************************************************************************)
RECURSIVE BitLen(_)
BitLen(n) == IF n = 0 THEN 0 ELSE 1 + BitLen(n \div 2)

RECURSIVE Pow2(_)
Pow2(k) == IF k = 0 THEN 1 ELSE 2 * Pow2(k - 1)

F32(m, e) == [cls |-> "fin", m |-> m, e |-> e]
F32NaN == [cls |-> "nan", m |-> 0, e |-> 0]
F32Inf == [cls |-> "inf", m |-> 0, e |-> 0]

\* n / 2^s rounded to the nearest integer, ties to even.
RoundEven(n, s) ==
    IF s = 0 THEN n
    ELSE LET q == n \div Pow2(s)
             r == n % Pow2(s)
             half == Pow2(s - 1)
         IN  IF r > half \/ (r = half /\ q % 2 = 1) THEN q + 1 ELSE q

\* The f32 nearest to m * 2^e, for m < 2^31.
Normalise(m, e) ==
    IF BitLen(m) <= 24 THEN F32(m, e)
    ELSE F32(RoundEven(m, BitLen(m) - 24), e + BitLen(m) - 24)

\* `x as f32` for a u64 x.
FromU64(x) ==
    IF x.hi = 0 THEN Normalise(x.lo, 0)
    ELSE LET s == BitLen(x.hi) + 6
             q == x.hi * Pow2(30 - s) + x.lo \div Pow2(s)
             r == x.lo % Pow2(s)
             half == Pow2(s - 1)
         IN  F32(IF r > half \/ (r = half /\ q % 2 = 1) THEN q + 1 ELSE q, s)

\* A non-zero mantissa shifted up to 24 bits.
Widen(m) == IF BitLen(m) < 24 THEN m * Pow2(24 - BitLen(m)) ELSE m

\* Long division: `steps` more quotient bits of rem / d, then the rounding.
RECURSIVE LongDiv(_, _, _, _)
LongDiv(rem, d, steps, q) ==
    IF steps = 0
    THEN (IF 2 * rem > d \/ (2 * rem = d /\ q % 2 = 1) THEN q + 1 ELSE q)
    ELSE IF 2 * rem >= d
         THEN LongDiv(2 * rem - d, d, steps - 1, 2 * q + 1)
         ELSE LongDiv(2 * rem, d, steps - 1, 2 * q)

\* a / b for finite a, b >= 0: 0/0 is NaN, x/0 is +inf.
F32Div(a, b) ==
    IF b.m = 0 THEN (IF a.m = 0 THEN F32NaN ELSE F32Inf)
    ELSE IF a.m = 0 THEN F32(0, 0)
    ELSE LET ma == IF a.m = Pow2(24) THEN Pow2(23) ELSE a.m
             ea == IF a.m = Pow2(24) THEN a.e + 1 ELSE a.e
             mb == IF b.m = Pow2(24) THEN Pow2(23) ELSE b.m
             eb == IF b.m = Pow2(24) THEN b.e + 1 ELSE b.e
             wa == Widen(ma)
             wb == Widen(mb)
             xa == ea - (24 - BitLen(ma))
             xb == eb - (24 - BitLen(mb))
         IN  IF wa >= wb
             THEN F32(LongDiv(wa - wb, wb, 23, 1), xa - xb - 23)
             ELSE F32(LongDiv(wa, wb, 24, 0), xa - xb - 24)

\* a * c for a small whole c (10.0, 100.0).
F32Mul(a, c) == IF a.cls = "fin" THEN Normalise(a.m * c, a.e) ELSE a

\* a / 2^k: exact.
Scale(a, k) == [a EXCEPT !.e = @ - k]

\* Faulty variant of RoundI32: NaN is cast to the largest i32.
RoundI32_nanMax(a) ==
    CASE a.cls = "nan" -> 2147483647
      [] a.cls = "inf" -> 2147483647
      [] a.e > 7 \/ (a.e = 7 /\ a.m >= Pow2(24)) -> 2147483647
      [] a.e >= 0 -> a.m * Pow2(a.e)
      [] a.e < -30 -> 0
      [] OTHER -> (a.m + Pow2(-a.e - 1)) \div Pow2(-a.e)

\* `a.round() as i32`: half away from zero, then the saturating cast
\* (NaN gives 0).
RoundI32(a) ==
    CASE a.cls = "nan" -> 0
      [] a.cls = "inf" -> 2147483647
      [] a.e > 7 \/ (a.e = 7 /\ a.m >= Pow2(24)) -> 2147483647
      [] a.e >= 0 -> a.m * Pow2(a.e)
      [] a.e < -30 -> 0
      [] OTHER -> (a.m + Pow2(-a.e - 1)) \div Pow2(-a.e)

\* Display of the f32 t / 10.0 for a whole t < 10^6: the shortest decimal
\* that reads back as the same f32.
TenthsText(t) ==
    ToString(t \div 10) \o (IF t % 10 = 0 THEN "" ELSE "." \o ToString(t % 10))

\* (x as f32 / 2^k).round() as i32
RoundedScaled(x, k) == RoundI32(Scale(FromU64(x), k))

\* (used as f32 / total as f32 * 100.0).round() as i32
DiskPercent(used, total) == RoundI32(F32Mul(F32Div(FromU64(used), FromU64(total)), 100))

\* format!("{} G / {} G ({}%)", ...) with the divisor 2^k of the formatter.
DiskText(k, used, total) ==
    ToString(RoundedScaled(used, k)) \o " G / " \o ToString(RoundedScaled(total, k))
        \o " G (" \o ToString(DiskPercent(used, total)) \o "%)"

\* (x as f32 * 10.0 / (1000.0 * 1000.0)).round() / 10.0, shown with {}
MacchinaGB(x) ==
    TenthsText(RoundI32(F32Div(F32Mul(FromU64(x), 10), Normalise(1000000, 0))))

PackagesJoined(counts) ==
    Join([k \in 1..Len(counts) |-> ToString(counts[k][2]) \o " (" \o counts[k][1] \o ")"],
         ", ")

\* Faulty variant of LocalIPJoined: only the first address is shown.
LocalIPJoined_first(local_ip) == IF Len(local_ip) = 0 THEN "" ELSE local_ip[1]

\* local_ip.join(", ")
LocalIPJoined(local_ip) == Join(local_ip, ", ")

\* The String a LocalIP value holds where the formatter shows it with
\* to_string (renderer/macchina/mod.rs): the addresses joined with ", ".
LocalIPString(local_ip) == Join(local_ip, ", ")

Neofetch_probe_config_to_string(probe_value) ==
    CASE probe_value.kind = "Uptime" -> LongUnitsText(NeofetchUptimeUnits(probe_value.n))
      [] probe_value.kind = "Packages" -> PackagesJoined(probe_value.counts)
      [] probe_value.kind = "Memory" ->
            ToString(RoundedScaled(probe_value.used, 20)) \o " GiB / "
                \o ToString(RoundedScaled(probe_value.total, 20)) \o " GiB"
      [] probe_value.kind = "CPUUsage" -> ToString(probe_value.n) \o "%"
      [] probe_value.kind = "Disk" -> DiskText(30, probe_value.used, probe_value.total)
      [] probe_value.kind = "Battery" -> ToString(probe_value.n)
      [] probe_value.kind = "LocalIP" -> LocalIPJoined(probe_value.local_ip)
      [] OTHER -> probe_value.s

Macchina_probe_config_to_string(probe_value) ==
    CASE probe_value.kind = "Uptime" -> ShortUnitsText(MacchinaUptimeUnits(probe_value.n))
      [] probe_value.kind = "Packages" -> PackagesJoined(probe_value.counts)
      [] probe_value.kind = "Memory" ->
            MacchinaGB(probe_value.used) \o " GB / " \o MacchinaGB(probe_value.total) \o " GB"
      [] probe_value.kind = "CPUUsage" -> ToString(probe_value.n) \o "%"
      [] probe_value.kind = "Disk" -> DiskText(30, probe_value.used, probe_value.total)
      [] probe_value.kind = "Battery" ->
            IF probe_value.n >= 100 THEN "Full" ELSE ToString(probe_value.n)
      [] probe_value.kind = "LocalIP" -> LocalIPString(probe_value.local_ip)
      [] OTHER -> probe_value.s

\* probe.rs: Packages(manager, count) holds one pair.
ProbeValue_to_string(probe_value) ==
    CASE probe_value.kind = "Uptime" -> LongUnitsText(ToStringUptimeUnits(probe_value.n))
      [] probe_value.kind = "Packages" ->
            ToString(probe_value.counts[1][2]) \o " (" \o probe_value.counts[1][1] \o ")"
      [] probe_value.kind = "Memory" ->
            ToString(probe_value.used.lo) \o " MiB / " \o ToString(probe_value.total.lo) \o " MiB"
      [] probe_value.kind = "CPUUsage" -> ToString(probe_value.n)
      [] probe_value.kind = "Disk" -> DiskText(10, probe_value.used, probe_value.total)
      [] probe_value.kind = "Battery" -> ToString(probe_value.n)
      [] probe_value.kind = "LocalIP" -> LocalIPJoined(probe_value.local_ip)
      [] OTHER -> probe_value.s

\* The formatter each draw function calls on a value.
FormatValue(style, probe_value) ==
    CASE style = "Neofetch" -> Neofetch_probe_config_to_string(probe_value)
      [] style = "Macchina" -> Macchina_probe_config_to_string(probe_value)
      [] style = "MacchinaEarly" -> ProbeValue_to_string(probe_value)

\* Ok(Single(v)) => vec![f(v)];  Ok(Multiple(vs)) => vs.map(f).collect()
Results(style, result) ==
    IF result.tag = "Single"
    THEN <<FormatValue(style, result.values[1])>>
    ELSE [k \in 1..Len(result.values) |-> FormatValue(style, result.values[k])]

(***************************************************************************)
(* Probes.  A probe is a closure; invoked, it queries the platform.        *)
(* "packages" is the probe of probe_metrics: one Packages value per        *)
(* package manager, in a Multiple.  "packages_list" returns a Packages     *)
(* value as the two probe_config_to_string formatters take it: one value   *)
(* holding the list of (manager, count) pairs.  "editor" always fails with *)
(* Unimplemented; "gpu" fails when the gpus() readout does.                *)
(***************************************************************************)
Invoke(probe) ==
    CASE probe = "uptime" -> Single(Uptime(platform.uptime))
      [] probe = "shell" -> Single(Shell("zsh 5.9"))
      [] probe = "packages" ->
            Multiple(<<Packages(<< <<"dpkg", 120>> >>), Packages(<< <<"flatpak", 5>> >>)>>)
      [] probe = "packages_list" ->
            Single(Packages(<< <<"dpkg", 120>>, <<"flatpak", 5>> >>))
      [] probe = "gpu" ->
            IF platform.gpus.ok
            THEN Multiple([k \in 1..platform.gpus.val |-> GPU("GPU " \o ToString(k))])
            ELSE Err(From_ReadoutError(platform.gpus.err))
      [] probe = "editor" -> Err([kind |-> "Unimplemented", msg |-> ""])
      [] probe = "terminal_font" -> Single(TerminalFont(""))

\* The platform handles the closure of a probe asks for when it is invoked
\* (general_readout(), package_readout()); "editor" and "terminal_font" ask
\* for none.
Handles(probe) ==
    CASE probe = "uptime" -> {"general"}
      [] probe = "shell" -> {"general"}
      [] probe = "packages" -> {"package"}
      [] probe = "packages_list" -> {"package"}
      [] probe = "gpu" -> {"general"}
      [] probe = "editor" -> {}
      [] probe = "terminal_font" -> {}

\* One record of the invocation log: the entry whose probe is called, the
\* number of lines already printed at that moment, and the ProbeError the
\* probe returned (NoError for Ok).
Call(entry, printed, err) == [entry |-> entry, printed |-> printed, err |-> err]

(***************************************************************************)
(* Resolution: the probe list is built from the configured entries before  *)
(* draw runs.  Each entry gives a pair of its label (label.clone()) and    *)
(* the boxed closure of its probe; the closure is stored, not called.      *)
(***************************************************************************)
Bind(entry) == [title |-> entry.title, probe |-> entry.probe]

\* probe_metrics: one push per configured entry, in order.
probe_metrics(ps) == [k \in 1..Len(ps) |-> Bind(ps[k])]

\* Faulty variant of MacchinaRenderer_new: the list is keyed by kind, so the
\* last label given to a kind replaces the earlier ones.
MacchinaRenderer_new_byKind(ps) ==
    [k \in 1..Len(ps) |->
        Bind(ps[CHOOSE j \in 1..Len(ps) :
                    /\ ps[j].probe = ps[k].probe
                    /\ \A n \in 1..Len(ps) : ps[n].probe = ps[k].probe => n <= j])]

\* MacchinaRenderer::new: config.probes.iter().map(|p| p.get_funcs()).collect()
MacchinaRenderer_new(ps) == [k \in 1..Len(ps) |-> Bind(ps[k])]

\* Faulty variant of ResolveCalls: every closure is called as it is bound.
ResolveCalls_eager(ps) == [k \in 1..Len(ps) |-> Call(k, 0, NoError)]

\* The probe invocations made while the list is built: none.
ResolveCalls(ps) == <<>>

\* The caller of draw builds the list with probe_metrics(config).
ProbeMetrics ==
    /\ pc = "new"
    /\ renderer \in {"Neofetch", "MacchinaEarly"}
    /\ probe_list' = probe_metrics(probes)
    /\ calls' = calls \o ResolveCalls(probes)
    /\ pc' = "begin"
    /\ UNCHANGED <<renderer, config, probes, platform, i, results, art_iter, out, ret,
                   handles, cfg, once, fmt, main>>

MacchinaNew ==
    /\ pc = "new"
    /\ renderer = "Macchina"
    /\ probe_list' = MacchinaRenderer_new(probes)
    /\ calls' = calls \o ResolveCalls(probes)
    /\ pc' = "begin"
    /\ UNCHANGED <<renderer, config, probes, platform, i, results, art_iter, out, ret,
                   handles, cfg, once, fmt, main>>

(***************************************************************************)
(* Printed lines.  text is what println! writes; the other fields record   *)
(* where the line came from: part ("title", "underline", "blank",          *)
(* "metric", "art"), the index of the entry (0: none), the padded label,   *)
(* the value text and the index of the art row used (0: none or filler).   *)
(***************************************************************************)
Line(part, entry, text, title, value, art) ==
    [part |-> part, entry |-> entry, text |-> text, title |-> title,
     value |-> value, art |-> art]

\* Faulty variant of Emit: new lines land before the earlier ones.
Emit_prepend(stdout, lines) == lines \o stdout

\* println!: the lines are appended to standard output in call order.
Emit(stdout, lines) == stdout \o lines

\* Faulty variant of Continue: the loop is left (`break`) instead.
Continue_break(idx) == Len(probe_list) + 1

\* `continue`: the loop moves on to the next entry.
Continue(idx) == idx + 1

(***************************************************************************)
(* NeofetchRenderer::draw                                                  *)
(***************************************************************************)
\* Faulty variant of max_title_len: the first label instead of the longest.
max_title_len_first(pl) == IF Len(pl) = 0 THEN 0 ELSE Len(pl[1].title)

max_title_len(pl) == MaxLen(Titles(pl))

\* format!("{:width$}:", title, width = max_title_len)
NeofetchTitle(title, width) == Pad(title, width) \o ":"

\* println!("{} {}", title, result)
NeofetchLine(title, result) == title \o " " \o result

NeofetchBegin ==
    /\ pc = "begin"
    /\ renderer = "Neofetch"
    /\ LET username == platform.username
           hostname == platform.hostname
       IN  IF config.title /\ (~username.ok \/ ~hostname.ok)
           THEN \* the `?` returns the readout error to the caller
                /\ ret' = "ReadoutError"
                /\ pc' = "done"
                /\ out' = out
           ELSE LET title_len ==
                        IF config.title
                        THEN Len(username.val) + Len(hostname.val) + 1
                        ELSE 0
                    title_line ==
                        IF config.title
                        THEN <<Line("title", 0, username.val \o "@" \o hostname.val,
                                    "", "", 0)>>
                        ELSE <<>>
                    underline ==
                        IF config.underline
                        THEN <<Line("underline", 0, Repeat("-", title_len), "", "", 0)>>
                        ELSE <<>>
                IN  /\ out' = Emit(Emit(out, title_line), underline)
                    /\ pc' = "probe"
                    /\ ret' = ret
    /\ handles' = IF config.title THEN handles \cup {"general"} ELSE handles
    /\ UNCHANGED <<renderer, config, probes, probe_list, platform, i, results, art_iter,
                   calls, cfg, once, fmt, main>>

\* One iteration of `for (title, probe) in probe_list`, up to the match on
\* probe(): an Err is logged and the entry skipped.
ProbeStep(style) ==
    /\ pc = "probe"
    /\ i <= Len(probe_list)
    /\ calls' = Append(calls, Call(i, Len(out), Invoke(probe_list[i].probe).err))
    /\ handles' = handles \cup Handles(probe_list[i].probe)
    /\ LET result == Invoke(probe_list[i].probe)
       IN  IF result.tag = "Err"
           THEN /\ i' = Continue(i)
                /\ pc' = "probe"
                /\ results' = <<>>
           ELSE /\ results' = Results(style, result)
                /\ pc' = "print"
                /\ i' = i
    /\ UNCHANGED <<renderer, config, probes, probe_list, platform, art_iter, out, ret,
                   cfg, once, fmt, main>>

NeofetchProbe ==
    /\ renderer = "Neofetch"
    /\ ProbeStep("Neofetch")

\* results.into_iter().for_each(|result| println!(...))
NeofetchPrint ==
    /\ pc = "print"
    /\ renderer = "Neofetch"
    /\ LET title == NeofetchTitle(probe_list[i].title, max_title_len(probe_list))
       IN  out' = Emit(out, [k \in 1..Len(results) |->
                    Line("metric", i, NeofetchLine(title, results[k]), title, results[k], 0)])
    /\ i' = i + 1
    /\ results' = <<>>
    /\ pc' = "probe"
    /\ UNCHANGED <<renderer, config, probes, probe_list, platform, art_iter, ret,
                   calls, handles, cfg, once, fmt, main>>

NeofetchEnd ==
    /\ pc = "probe"
    /\ renderer = "Neofetch"
    /\ i > Len(probe_list)
    /\ ret' = "Ok"
    /\ pc' = "done"
    /\ UNCHANGED <<renderer, config, probes, probe_list, platform, i, results, art_iter, out,
                   calls, handles, cfg, once, fmt, main>>

(***************************************************************************)
(* MacchinaRenderer::draw (renderer/macchina/mod.rs)                       *)
(***************************************************************************)
\* Faulty variant of title_width: the longest label plus 2, with no floor.
title_width_noFloor(pl) == MaxLen(Titles(pl)) + 2

\* std::cmp::max(longest title + 2, 12)
title_width(pl) == Max(MaxLen(Titles(pl)) + 2, 12)

\* Faulty variant of ArtIndex: the art block starts over when exhausted.
ArtIndex_wrap(n) == ((n - 1) % Len(ASCII_ART)) + 1

\* art_iter.next() for the n-th call (n counted from 1): Some(row) or the filler.
ArtIndex(n) == IF n <= Len(ASCII_ART) THEN n ELSE 0

ArtRow(n) == IF ArtIndex(n) > 0 THEN ASCII_ART[ArtIndex(n)] ELSE ASCII_ART_FILLER

\* println!("{}    {:title_width$}{}  {}", art, title, "-", result)
MacchinaLine(art, title, width, result) ==
    art \o "    " \o Pad(title, width) \o "-" \o "  " \o result

\* Faulty variant of RemainingArt: the unused rows are dropped.
RemainingArt_none(consumed) == <<>>

\* for art in art_iter { println!("{}", art) }
RemainingArt(consumed) ==
    [k \in 1..(Len(ASCII_ART) - consumed) |->
        Line("art", 0, ASCII_ART[consumed + k], "", "", consumed + k)]

BlankLine == Line("blank", 0, "", "", "", 0)

MacchinaBegin ==
    /\ pc = "begin"
    /\ renderer = "Macchina"
    /\ out' = Emit(out, <<BlankLine>>)
    /\ art_iter' = 0
    /\ pc' = "probe"
    /\ UNCHANGED <<renderer, config, probes, probe_list, platform, i, results, ret,
                   calls, handles, cfg, once, fmt, main>>

MacchinaProbe ==
    /\ renderer = "Macchina"
    /\ ProbeStep("Macchina")

MacchinaPrint ==
    /\ pc = "print"
    /\ renderer = "Macchina"
    /\ LET width == title_width(probe_list)
           title == probe_list[i].title
       IN  out' = Emit(out, [k \in 1..Len(results) |->
                    Line("metric", i,
                         MacchinaLine(ArtRow(art_iter + k), title, width, results[k]),
                         Pad(title, width), results[k], ArtIndex(art_iter + k))])
    /\ art_iter' = IF art_iter + Len(results) <= Len(ASCII_ART)
                   THEN art_iter + Len(results)
                   ELSE Len(ASCII_ART)
    /\ i' = i + 1
    /\ results' = <<>>
    /\ pc' = "probe"
    /\ UNCHANGED <<renderer, config, probes, probe_list, platform, ret,
                   calls, handles, cfg, once, fmt, main>>

MacchinaEnd ==
    /\ pc = "probe"
    /\ renderer = "Macchina"
    /\ i > Len(probe_list)
    /\ out' = Emit(Emit(out, RemainingArt(art_iter)), <<BlankLine>>)
    /\ art_iter' = Len(ASCII_ART)
    /\ ret' = "Ok"
    /\ pc' = "done"
    /\ UNCHANGED <<renderer, config, probes, probe_list, platform, i, results,
                   calls, handles, cfg, once, fmt, main>>

(***************************************************************************)
(* MacchinaRenderer::draw, earlier variant (renderer/macchina.rs): no art, *)
(* values formatted by ProbeValue::to_string.                              *)
(***************************************************************************)
\* println!("{:title_width$}{}  {}", title, "-", result)
EarlyLine(title, width, result) == Pad(title, width) \o "-" \o "  " \o result

EarlyBegin ==
    /\ pc = "begin"
    /\ renderer = "MacchinaEarly"
    /\ out' = Emit(out, <<BlankLine>>)
    /\ pc' = "probe"
    /\ UNCHANGED <<renderer, config, probes, probe_list, platform, i, results, art_iter, ret,
                   calls, handles, cfg, once, fmt, main>>

EarlyProbe ==
    /\ renderer = "MacchinaEarly"
    /\ ProbeStep("MacchinaEarly")

EarlyPrint ==
    /\ pc = "print"
    /\ renderer = "MacchinaEarly"
    /\ LET width == title_width(probe_list)
           title == probe_list[i].title
       IN  out' = Emit(out, [k \in 1..Len(results) |->
                    Line("metric", i, EarlyLine(title, width, results[k]),
                         Pad(title, width), results[k], 0)])
    /\ i' = i + 1
    /\ results' = <<>>
    /\ pc' = "probe"
    /\ UNCHANGED <<renderer, config, probes, probe_list, platform, art_iter, ret,
                   calls, handles, cfg, once, fmt, main>>

EarlyEnd ==
    /\ pc = "probe"
    /\ renderer = "MacchinaEarly"
    /\ i > Len(probe_list)
    /\ ret' = "Ok"
    /\ pc' = "done"
    /\ UNCHANGED <<renderer, config, probes, probe_list, platform, i, results, art_iter, out,
                   calls, handles, cfg, once, fmt, main>>

(***************************************************************************)
(* Inputs of a render pass.                                                *)
(***************************************************************************)
Entries ==
    { [title |-> "Uptime", probe |-> "uptime"],
      [title |-> "Up", probe |-> "uptime"],
      [title |-> "Shell", probe |-> "shell"],
      [title |-> "Packages", probe |-> "packages"],
      [title |-> "Packages", probe |-> "packages_list"],
      [title |-> "GPU", probe |-> "gpu"],
      [title |-> "Editor", probe |-> "editor"],
      [title |-> "Text Editor", probe |-> "editor"],
      [title |-> "Terminal Font", probe |-> "terminal_font"] }

ProbeLists == UNION { [1..n -> Entries] : n \in 0..MaxEntries }

Uses(pl, probe) == \E k \in 1..Len(pl) : pl[k].probe = probe

UptimeCases == {0, 59, 150, 3661, 43200, 90061}

Usernames == {ROk("al"), RErr([kind |-> "MetricNotAvailable", msg |-> ""])}

Hostnames == {ROk("box"), RErr([kind |-> "Other", msg |-> "no hostname"])}

GpuReadouts == {ROk(1), ROk(MaxGpus)} \cup {RErr(e) : e \in ReadoutErrors}

\* Inputs no step of the run reads are pinned to one value.
Init ==
    /\ renderer \in {"Neofetch", "Macchina", "MacchinaEarly"}
    /\ probes \in ProbeLists
    /\ probe_list = <<>>
    /\ renderer = "MacchinaEarly" => ~Uses(probes, "packages_list")
    /\ config \in [title : BOOLEAN, underline : BOOLEAN]
    /\ renderer # "Neofetch" => config = [title |-> FALSE, underline |-> FALSE]
    /\ platform \in [uptime : UptimeCases, username : Usernames,
                     hostname : Hostnames, gpus : GpuReadouts]
    /\ ~Uses(probes, "uptime") => platform.uptime = 0
    /\ ~Uses(probes, "gpu") => platform.gpus = ROk(MaxGpus)
    /\ ~(renderer = "Neofetch" /\ config.title) =>
            /\ platform.username = ROk("al")
            /\ platform.hostname = ROk("box")
    /\ pc = "new"
    /\ i = 1
    /\ results = <<>>
    /\ art_iter = 0
    /\ out = <<>>
    /\ ret = "Running"
    /\ calls = <<>>
    /\ handles = {}
    /\ cfg = "idle"
    /\ once = "idle"
    /\ fmt = "idle"
    /\ main = "idle"

Next ==
    \/ ProbeMetrics
    \/ MacchinaNew
    \/ NeofetchBegin
    \/ NeofetchProbe
    \/ NeofetchPrint
    \/ NeofetchEnd
    \/ MacchinaBegin
    \/ MacchinaProbe
    \/ MacchinaPrint
    \/ MacchinaEnd
    \/ EarlyBegin
    \/ EarlyProbe
    \/ EarlyPrint
    \/ EarlyEnd

Spec == Init /\ [][Next]_vars

TypeOK ==
    /\ pc \in {"new", "begin", "probe", "print", "done"}
    /\ ret \in {"Running", "Ok", "ReadoutError"}
    /\ i \in 1..(Len(probe_list) + 1)
    /\ art_iter \in 0..Len(ASCII_ART)

(***************************************************************************)
(* Properties of a render pass.                                            *)
(***************************************************************************)
IsMetric(line) == line.part = "metric"

MetricLines == SelectSeq(out, IsMetric)

LinesOf(e) == SelectSeq(out, LAMBDA line : IsMetric(line) /\ line.entry = e)

ValuesOf(e) == [k \in 1..Len(LinesOf(e)) |-> LinesOf(e)[k].value]

Texts(lines) == [k \in 1..Len(lines) |-> lines[k].text]

Outcome(e) == Invoke(probe_list[e].probe)

\* The entries the loop has gone past: their probe was invoked and has returned.
Processed(e) == e \in 1..Len(probe_list) /\ e < i

LongestTitle == MaxLen(Titles(probe_list))

\* The label column of entry e, as each renderer lays it out.
LabelColumn(e) ==
    IF renderer = "Neofetch"
    THEN Pad(probe_list[e].title, LongestTitle) \o ":"
    ELSE Pad(probe_list[e].title, Max(LongestTitle + 2, 12))

\* The value texts of an outcome, one per value, by the renderer's formatter.
ValueTexts(result) ==
    CASE renderer = "Neofetch" ->
            [k \in 1..Len(result.values) |-> Neofetch_probe_config_to_string(result.values[k])]
      [] renderer = "Macchina" ->
            [k \in 1..Len(result.values) |-> Macchina_probe_config_to_string(result.values[k])]
      [] renderer = "MacchinaEarly" ->
            [k \in 1..Len(result.values) |-> ProbeValue_to_string(result.values[k])]

\* C1: metric lines come out in configuration order: a line of entry a is
\* never printed after a line of a later entry b, and every metric line
\* carries the label of the entry it belongs to.
C1_ConfigOrder ==
    /\ \A a, b \in 1..Len(out) :
            (a < b /\ IsMetric(out[a]) /\ IsMetric(out[b])) =>
                out[a].entry <= out[b].entry
    /\ \A a \in 1..Len(out) :
            IsMetric(out[a]) => out[a].title = LabelColumn(out[a].entry)

C1_Witness ==
    /\ pc = "done"
    /\ ret = "Ok"
    /\ Len(probe_list) = 2
    /\ Len(LinesOf(1)) > 1
    /\ Len(LinesOf(2)) > 0

\* C2: failure isolation: whatever the other probes return, every entry whose
\* probe returned Ok is rendered under its own label with exactly the value
\* texts of its own outcome.
C2_FailureIsolation ==
    \A e \in 1..Len(probe_list) :
        (Processed(e) /\ Outcome(e).tag # "Err") =>
            /\ ValuesOf(e) = ValueTexts(Outcome(e))
            /\ \A k \in 1..Len(LinesOf(e)) : LinesOf(e)[k].title = LabelColumn(e)

C2_Witness ==
    /\ pc = "done"
    /\ Len(probe_list) = 2
    /\ Outcome(1).tag = "Err"
    /\ Outcome(1).err.kind = "Other"
    /\ Outcome(2).tag = "Single"
    /\ Len(LinesOf(2)) = 1

\* The values an outcome holds, each as its own text: one per element, and one
\* per (manager, count) pair of a Packages value.
RECURSIVE HeldTexts(_)
HeldTexts(values) ==
    IF Len(values) = 0 THEN <<>>
    ELSE (IF values[1].kind = "Packages"
          THEN [k \in 1..Len(values[1].counts) |->
                    ToString(values[1].counts[k][2]) \o " (" \o values[1].counts[k][1] \o ")"]
          ELSE ValueTexts(Single(values[1])))
         \o HeldTexts(Tail(values))

\* C3: multiplicity: an outcome holding n values is rendered as exactly n
\* lines in element order, one element's text each ("<count> (<manager>)" for
\* Packages), never merged into one line.
C3_Multiplicity ==
    \A e \in 1..Len(probe_list) :
        (Processed(e) /\ Outcome(e).tag # "Err") =>
            ValuesOf(e) = HeldTexts(Outcome(e).values)

\* C4: a render pass never fails because of a readout: draw returns Ok.
C4_DrawReturnsOk == pc = "done" => ret = "Ok"

\* C5: no configured entry is omitted: after a draw that returned Ok every
\* entry has at least one line under its label, failed probes included.
C5_NoEntryOmitted ==
    (pc = "done" /\ ret = "Ok") =>
        \A e \in 1..Len(probe_list) : Len(LinesOf(e)) > 0

IsUptimeLine(line) == IsMetric(line) /\ probe_list[line.entry].probe = "uptime"

\* C6: uptime unit selection of the neofetch-style formatter and of
\* ProbeValue::to_string, on the components the formatter computes: days,
\* hours and minutes when days > 0; else hours and minutes when hours > 0;
\* else minutes when minutes > 0; else seconds.
C6_UptimeUnitSelection ==
    \A k \in 1..Len(out) :
        (IsUptimeLine(out[k]) /\ renderer \in {"Neofetch", "MacchinaEarly"}) =>
            LET days == NeofetchDays(platform.uptime)
                hours == NeofetchHours(platform.uptime)
                minutes == NeofetchMinutes(platform.uptime)
                seconds == NeofetchSeconds(platform.uptime)
                shown == out[k].value
            IN  /\ days > 0 =>
                    shown = ToString(days) \o " days, " \o ToString(hours)
                                \o " hours, " \o ToString(minutes) \o " mins"
                /\ (days = 0 /\ hours > 0) =>
                    shown = ToString(hours) \o " hours, " \o ToString(minutes) \o " mins"
                /\ (days = 0 /\ hours = 0 /\ minutes > 0) =>
                    shown = ToString(minutes) \o " mins"
                /\ (days = 0 /\ hours = 0 /\ minutes = 0) =>
                    shown = ToString(seconds) \o " seconds"

C6_Witness ==
    /\ renderer = "Neofetch"
    /\ pc = "done"
    /\ \E k \in 1..Len(out) : IsUptimeLine(out[k])
    /\ NeofetchDays(platform.uptime) > 0
    /\ NeofetchHours(platform.uptime) > 0

\* C7: an uptime below one minute is rendered as its seconds count by every
\* uptime formatter: "<n> seconds" (neofetch, to_string) or "<n>s" (macchina).
C7_SubMinuteShowsSeconds ==
    \A k \in 1..Len(out) :
        (IsUptimeLine(out[k]) /\ platform.uptime < 60) =>
            /\ out[k].value # ""
            /\ out[k].value = IF renderer = "Macchina"
                              THEN ToString(platform.uptime) \o "s"
                              ELSE ToString(platform.uptime) \o " seconds"

\* The end-to-end scenario of the layout claim: [Uptime "Uptime", Shell
\* "Shell"], uptime 90061 s, no title and no underline, drawn to the end.
C8_Scenario ==
    /\ renderer = "Neofetch"
    /\ config = [title |-> FALSE, underline |-> FALSE]
    /\ probe_list = << [title |-> "Uptime", probe |-> "uptime"],
                       [title |-> "Shell", probe |-> "shell"] >>
    /\ platform.uptime = 90061
    /\ pc = "done"

\* C8 as stated: the label column is the longest label plus a margin, so the
\* scenario prints "Uptime   : ..." and "Shell    : ...".
C8_LayoutWithMargin ==
    C8_Scenario =>
        Texts(out) = << "Uptime   : 1 days, 1 hours, 1 mins", "Shell    : zsh 5.9" >>

\* C8 amended: every label is padded to the longest label's length with no
\* margin, then a colon, one space and the value; the scenario prints
\* "Uptime: 1 days, 1 hours, 1 mins" and "Shell : zsh 5.9".
C8_NeofetchLayout ==
    /\ renderer = "Neofetch" =>
            \A k \in 1..Len(out) :
                IsMetric(out[k]) =>
                    out[k].text = Pad(probe_list[out[k].entry].title, LongestTitle)
                                      \o ":" \o " " \o out[k].value
    /\ C8_Scenario =>
            Texts(out) = << "Uptime: 1 days, 1 hours, 1 mins", "Shell : zsh 5.9" >>

C8_Witness == C8_Scenario /\ ret = "Ok" /\ Len(out) = 2

\* C9: macchina-style pairing: the k-th value line (from 0) starts with art
\* row k while k < N and with the filler afterwards; the filler and all art
\* rows have one width, so the label column starts at one offset.
C9_ArtPairing ==
    renderer = "Macchina" =>
        /\ \A r \in 1..Len(ASCII_ART) : Len(ASCII_ART[r]) = Len(ASCII_ART_FILLER)
        /\ \A k \in 1..Len(MetricLines) :
              LET line == MetricLines[k]
                  art == IF k <= Len(ASCII_ART) THEN ASCII_ART[k] ELSE ASCII_ART_FILLER
              IN  /\ line.text = art \o "    " \o line.title \o "-" \o "  " \o line.value
                  /\ line.art = IF k <= Len(ASCII_ART) THEN k ELSE 0

C9_Witness ==
    /\ renderer = "Macchina"
    /\ pc = "done"
    /\ Len(MetricLines) > Len(ASCII_ART)
    /\ MetricLines[Len(MetricLines)].art = 0

\* The lines between the leading and the trailing blank line.
Body == SubSeq(out, 2, Len(out) - 1)

ArtUses == SelectSeq(Body, LAMBDA line : line.art # 0)

\* C10: macchina-style art completeness: in a finished draw every art row is
\* printed exactly once, top to bottom; rows without a value line are printed
\* alone after the last value line; the body has max(L, N) lines.
C10_ArtComplete ==
    (renderer = "Macchina" /\ pc = "done") =>
        /\ out[1].part = "blank"
        /\ out[Len(out)].part = "blank"
        /\ [k \in 1..Len(ArtUses) |-> ArtUses[k].art] = [k \in 1..Len(ASCII_ART) |-> k]
        /\ \A k \in 1..Len(Body) :
              /\ Body[k].part \in {"metric", "art"}
              /\ Body[k].part = "art" =>
                    /\ Body[k].text = ASCII_ART[Body[k].art]
                    /\ \A later \in k..Len(Body) : Body[later].part = "art"
        /\ Len(Body) = Max(Len(MetricLines), Len(ASCII_ART))

C10_Witness ==
    /\ renderer = "Macchina"
    /\ pc = "done"
    /\ Len(MetricLines) > 0
    /\ Len(MetricLines) < Len(ASCII_ART)
    /\ Body[Len(Body)].part = "art"

\* Two configured entries of one metric kind under different labels.
SameKind(a, b) ==
    /\ a < b
    /\ probes[a].probe = probes[b].probe
    /\ probes[a].title # probes[b].title

\* The positions in out of the metric lines of entry e.
PositionsOf(e) == {k \in 1..Len(out) : IsMetric(out[k]) /\ out[k].entry = e}

\* C14: a kind may be configured several times under different labels: each
\* of two such entries is resolved to its own (label, probe) pair, probed by
\* its own invocation and rendered as its own group of lines, under its own
\* label, the group of the earlier entry wholly before that of the later.
C14_RepeatedKind ==
    \A a, b \in 1..Len(probes) :
        (SameKind(a, b) /\ pc # "new") =>
            /\ Len(probe_list) = Len(probes)
            /\ probe_list[a] = Bind(probes[a])
            /\ probe_list[b] = Bind(probes[b])
            /\ (Processed(b) /\ Outcome(b).tag # "Err") =>
                    /\ \E c, d \in 1..Len(calls) :
                            c < d /\ calls[c].entry = a /\ calls[d].entry = b
                    /\ ValuesOf(a) = ValueTexts(Outcome(a))
                    /\ ValuesOf(b) = ValueTexts(Outcome(b))
                    /\ \A k \in PositionsOf(a) : out[k].title = LabelColumn(a)
                    /\ \A k \in PositionsOf(b) : out[k].title = LabelColumn(b)
                    /\ LabelColumn(a) # LabelColumn(b)
                    /\ \A k \in PositionsOf(a) : \A n \in PositionsOf(b) : k < n

C14_Witness ==
    /\ pc = "done"
    /\ renderer = "Macchina"
    /\ probes = <<[title |-> "Uptime", probe |-> "uptime"],
                  [title |-> "Up", probe |-> "uptime"]>>
    /\ platform.uptime = 90061
    /\ Cardinality(PositionsOf(1)) = 1
    /\ Cardinality(PositionsOf(2)) = 1
    /\ Texts(LinesOf(2)) = <<ASCII_ART[2] \o "    Up          -  1d 1h 1m ">>

\* The platform handles asked for by the probe invocations logged so far.
HandlesOfCalls == UNION {Handles(probe_list[calls[k].entry].probe) : k \in 1..Len(calls)}

\* C16 as stated: building the probe list invokes no probe and initialises
\* no platform handle, and a platform handle is only ever asked for by an
\* invoked probe function.
C16_ReadoutsOnlyInProbes ==
    /\ pc \in {"new", "begin"} => (calls = <<>> /\ handles = {})
    /\ handles \subseteq HandlesOfCalls

\* C16, amended: building the probe list invokes no probe, initialises no
\* platform handle and prints nothing; during draw a platform handle is
\* asked for by an invoked probe function or, in the neofetch draw with the
\* title on, by the title line.
C16_ResolutionFrame ==
    /\ pc \in {"new", "begin"} => (calls = <<>> /\ handles = {} /\ out = <<>>)
    /\ handles \subseteq
            HandlesOfCalls \cup
                (IF renderer = "Neofetch" /\ config.title THEN {"general"} ELSE {})

C16_Witness ==
    /\ pc = "begin"
    /\ Len(probe_list) = 2
    /\ probe_list[1].probe = "packages"
    /\ probe_list[2].probe = "gpu"
    /\ calls = <<>>
    /\ handles = {}

\* The probes are invoked in configuration order, each at most once, and the
\* probe of an entry is invoked only after every line of the entries before
\* it has been printed.
SequentialCalls ==
    /\ \A k \in 1..Len(calls) : calls[k].entry = k
    /\ \A k \in 1..Len(calls) : \A n \in 1..Len(out) :
            IsMetric(out[n]) =>
                /\ out[n].entry < k => n <= calls[k].printed
                /\ out[n].entry >= k => n > calls[k].printed
    /\ \A e \in 1..Len(probe_list) :
            (Processed(e) /\ Outcome(e).tag # "Err") =>
                Len(LinesOf(e)) = Len(Outcome(e).values)

\* C17: within one draw the probe of every configured entry is invoked
\* exactly once, in configuration order and strictly one after the other:
\* a draw that has returned has invoked each entry's probe once.
C17_EachProbeOnce ==
    /\ SequentialCalls
    /\ pc = "done" => Len(calls) = Len(probes)

(***************************************************************************)
(* Configuration (config.rs).  A configured entry is a ProbeConfig value:  *)
(* a variant carrying its label.  The presets are the lists the source     *)
(* writes out; get_funcs resolves an entry to the pair of its label and    *)
(* the probe of the ProbeType its arm names.                               *)
(***************************************************************************)
\* The variants of enum ProbeConfig, in declaration order.
ProbeConfig ==
    <<"Host", "OS", "Model", "Kernel", "Distro", "Uptime",
      "Packages", "Shell", "Editor", "Resolution", "DE", "WM",
      "WMTheme", "Theme", "Icons", "Cursor", "Terminal", "TerminalFont",
      "CPU", "GPU", "Memory", "Network", "Bluetooth", "BIOS",
      "GPUDriver", "CPUUsage", "Disk", "Battery", "PowerAdapter", "Font",
      "Song", "LocalIP", "PublicIP", "Users", "Locale", "Java",
      "Python", "Node", "Rust">>

Range(seq) == {seq[k] : k \in 1..Len(seq)}

PCfg(variant, label) == [variant |-> variant, label |-> label]

default_all ==
    <<PCfg("OS", "OS"), PCfg("Model", "Host"), PCfg("Kernel", "Kernel"),
      PCfg("Uptime", "Uptime"), PCfg("Packages", "Packages"), PCfg("Shell", "Shell"),
      PCfg("Editor", "Editor"), PCfg("Resolution", "Resolution"), PCfg("DE", "DE"),
      PCfg("WM", "WM"), PCfg("WMTheme", "WM Theme"), PCfg("Theme", "Theme"),
      PCfg("Icons", "Icons"), PCfg("Cursor", "Cursor"), PCfg("Terminal", "Terminal"),
      PCfg("TerminalFont", "Terminal Font"), PCfg("CPU", "CPU"), PCfg("GPU", "GPU"),
      PCfg("Memory", "Memory"), PCfg("Network", "Network"), PCfg("Bluetooth", "Bluetooth"),
      PCfg("BIOS", "BIOS"), PCfg("GPUDriver", "GPU Driver"), PCfg("CPUUsage", "CPU Usage"),
      PCfg("Disk", "Disk"), PCfg("Battery", "Battery"), PCfg("PowerAdapter", "Power Adapter"),
      PCfg("Font", "Font"), PCfg("Song", "Song"), PCfg("LocalIP", "Local IP"),
      PCfg("PublicIP", "Public IP"), PCfg("Users", "Users"), PCfg("Locale", "Locale"),
      PCfg("Java", "Java"), PCfg("Python", "Python"), PCfg("Node", "Node"),
      PCfg("Rust", "Rust")>>

default_neofetch ==
    <<PCfg("OS", "OS"), PCfg("Model", "Host"), PCfg("Kernel", "Kernel"),
      PCfg("Uptime", "Uptime"), PCfg("Packages", "Packages"), PCfg("Shell", "Shell"),
      PCfg("Editor", "Editor"), PCfg("Resolution", "Resolution"), PCfg("DE", "DE"),
      PCfg("WM", "WM"), PCfg("WMTheme", "WM Theme"), PCfg("Theme", "Theme"),
      PCfg("Icons", "Icons"), PCfg("Cursor", "Cursor"), PCfg("Terminal", "Terminal"),
      PCfg("TerminalFont", "Terminal Font"), PCfg("CPU", "CPU"), PCfg("GPU", "GPU"),
      PCfg("Memory", "Memory"), PCfg("Network", "Network"), PCfg("Bluetooth", "Bluetooth"),
      PCfg("BIOS", "BIOS")>>

\* Faulty variant of default_macchina: both operating-system entries are
\* listed whatever the platform.
default_macchina_both(target_os) ==
    <<PCfg("Host", "Host"), PCfg("Model", "Machine"), PCfg("Kernel", "Kernel"),
      PCfg("Distro", "Distro"), PCfg("OS", "OS"), PCfg("Packages", "Packages"),
      PCfg("Terminal", "Terminal"), PCfg("LocalIP", "Local IP"), PCfg("Shell", "Shell"),
      PCfg("Uptime", "Uptime"), PCfg("CPU", "CPU"), PCfg("Resolution", "Resolution"),
      PCfg("CPUUsage", "CPU Load"), PCfg("Memory", "Memory"), PCfg("Battery", "Battery")>>

\* #[cfg(target_os = "linux")] keeps the Distro entry,
\* #[cfg(any(target_os = "macos", target_os = "windows"))] the OS entry.
default_macchina(target_os) ==
    <<PCfg("Host", "Host"), PCfg("Model", "Machine"), PCfg("Kernel", "Kernel")>>
    \o (IF target_os = "linux" THEN <<PCfg("Distro", "Distro")>> ELSE <<>>)
    \o (IF target_os \in {"macos", "windows"} THEN <<PCfg("OS", "OS")>> ELSE <<>>)
    \o <<PCfg("Packages", "Packages"), PCfg("Terminal", "Terminal"), PCfg("LocalIP", "Local IP"),
         PCfg("Shell", "Shell"), PCfg("Uptime", "Uptime"), PCfg("CPU", "CPU"),
         PCfg("Resolution", "Resolution"), PCfg("CPUUsage", "CPU Load"), PCfg("Memory", "Memory"),
         PCfg("Battery", "Battery")>>

\* Faulty variant of get_funcs: the Distro arm names the probe of OS.
get_funcs_distroAsOS(p) ==
    [title |-> p.label, probe |-> IF p.variant = "Distro" THEN "OS" ELSE p.variant]

\* match self { Self::X(label) => (label.clone(), ProbeType::X.into()), ... }
get_funcs(p) ==
    CASE p.variant = "Host" -> [title |-> p.label, probe |-> "Host"]
      [] p.variant = "OS" -> [title |-> p.label, probe |-> "OS"]
      [] p.variant = "Distro" -> [title |-> p.label, probe |-> "Distro"]
      [] p.variant = "Model" -> [title |-> p.label, probe |-> "Model"]
      [] p.variant = "Kernel" -> [title |-> p.label, probe |-> "Kernel"]
      [] p.variant = "Uptime" -> [title |-> p.label, probe |-> "Uptime"]
      [] p.variant = "Packages" -> [title |-> p.label, probe |-> "Packages"]
      [] p.variant = "Shell" -> [title |-> p.label, probe |-> "Shell"]
      [] p.variant = "Editor" -> [title |-> p.label, probe |-> "Editor"]
      [] p.variant = "Resolution" -> [title |-> p.label, probe |-> "Resolution"]
      [] p.variant = "DE" -> [title |-> p.label, probe |-> "DE"]
      [] p.variant = "WM" -> [title |-> p.label, probe |-> "WM"]
      [] p.variant = "WMTheme" -> [title |-> p.label, probe |-> "WMTheme"]
      [] p.variant = "Theme" -> [title |-> p.label, probe |-> "Theme"]
      [] p.variant = "Icons" -> [title |-> p.label, probe |-> "Icons"]
      [] p.variant = "Cursor" -> [title |-> p.label, probe |-> "Cursor"]
      [] p.variant = "Terminal" -> [title |-> p.label, probe |-> "Terminal"]
      [] p.variant = "TerminalFont" -> [title |-> p.label, probe |-> "TerminalFont"]
      [] p.variant = "CPU" -> [title |-> p.label, probe |-> "CPU"]
      [] p.variant = "GPU" -> [title |-> p.label, probe |-> "GPU"]
      [] p.variant = "Memory" -> [title |-> p.label, probe |-> "Memory"]
      [] p.variant = "Network" -> [title |-> p.label, probe |-> "Network"]
      [] p.variant = "Bluetooth" -> [title |-> p.label, probe |-> "Bluetooth"]
      [] p.variant = "BIOS" -> [title |-> p.label, probe |-> "BIOS"]
      [] p.variant = "GPUDriver" -> [title |-> p.label, probe |-> "GPUDriver"]
      [] p.variant = "CPUUsage" -> [title |-> p.label, probe |-> "CPUUsage"]
      [] p.variant = "Disk" -> [title |-> p.label, probe |-> "Disk"]
      [] p.variant = "Battery" -> [title |-> p.label, probe |-> "Battery"]
      [] p.variant = "PowerAdapter" -> [title |-> p.label, probe |-> "PowerAdapter"]
      [] p.variant = "Font" -> [title |-> p.label, probe |-> "Font"]
      [] p.variant = "Song" -> [title |-> p.label, probe |-> "Song"]
      [] p.variant = "LocalIP" -> [title |-> p.label, probe |-> "LocalIP"]
      [] p.variant = "PublicIP" -> [title |-> p.label, probe |-> "PublicIP"]
      [] p.variant = "Users" -> [title |-> p.label, probe |-> "Users"]
      [] p.variant = "Locale" -> [title |-> p.label, probe |-> "Locale"]
      [] p.variant = "Java" -> [title |-> p.label, probe |-> "Java"]
      [] p.variant = "Python" -> [title |-> p.label, probe |-> "Python"]
      [] p.variant = "Node" -> [title |-> p.label, probe |-> "Node"]
      [] p.variant = "Rust" -> [title |-> p.label, probe |-> "Rust"]

(***************************************************************************)
(* Building a configuration and resolving it.  A configuration is one of   *)
(* the presets or a list read from a file; resolution maps get_funcs over  *)
(* its entries, in order.  The render pass stands still meanwhile.         *)
(***************************************************************************)
render_vars == <<renderer, config, probes, probe_list, platform, pc, i, results,
                 art_iter, out, ret, calls, handles>>

RenderIdle ==
    /\ renderer = "Neofetch"
    /\ config = [title |-> FALSE, underline |-> FALSE]
    /\ probes = <<>>
    /\ probe_list = <<>>
    /\ platform = [uptime |-> 0, username |-> ROk("al"), hostname |-> ROk("box"),
                   gpus |-> ROk(MaxGpus)]
    /\ pc = "idle"
    /\ i = 1
    /\ results = <<>>
    /\ art_iter = 0
    /\ out = <<>>
    /\ ret = "Running"
    /\ calls = <<>>
    /\ handles = {}

\* The platforms a build can target; "freebsd" stands for every target_os
\* that neither cfg attribute of default_macchina names.
TargetOS == {"linux", "macos", "windows", "freebsd"}

Presets == {"all", "neofetch", "macchina", "file"}

Labels == {"", "My Label"}

\* The lists a configuration file can hold, here one entry of any variant.
FileConfigs == {<<PCfg(v, l)>> : v \in Range(ProbeConfig), l \in Labels}

ConfigInit ==
    /\ RenderIdle
    /\ once = "idle"
    /\ fmt = "idle"
    /\ main = "idle"
    /\ \E preset \in Presets, target_os \in TargetOS, file \in FileConfigs :
            /\ preset # "macchina" => target_os = "linux"
            /\ preset # "file" => file = <<PCfg("Host", "")>>
            /\ cfg = [pc |-> "select", preset |-> preset, target_os |-> target_os,
                      file |-> file, probes |-> <<>>, resolved |-> <<>>]

SelectConfig ==
    /\ cfg.pc = "select"
    /\ cfg' = [cfg EXCEPT
                !.pc = "resolve",
                !.probes = CASE cfg.preset = "all" -> default_all
                             [] cfg.preset = "neofetch" -> default_neofetch
                             [] cfg.preset = "macchina" -> default_macchina(cfg.target_os)
                             [] cfg.preset = "file" -> cfg.file]
    /\ UNCHANGED <<render_vars, once, fmt, main>>

\* One step of config.probes.iter().map(|p| p.get_funcs())
GetFuncs ==
    /\ cfg.pc = "resolve"
    /\ Len(cfg.resolved) < Len(cfg.probes)
    /\ cfg' = [cfg EXCEPT
                !.resolved = Append(cfg.resolved, get_funcs(cfg.probes[Len(cfg.resolved) + 1]))]
    /\ UNCHANGED <<render_vars, once, fmt, main>>

\* .collect::<Vec<_>>()
Collect ==
    /\ cfg.pc = "resolve"
    /\ Len(cfg.resolved) = Len(cfg.probes)
    /\ cfg' = [cfg EXCEPT !.pc = "done"]
    /\ UNCHANGED <<render_vars, once, fmt, main>>

ConfigNext ==
    \/ SelectConfig
    \/ GetFuncs
    \/ Collect

ConfigSpec == ConfigInit /\ [][ConfigNext]_vars

\* The variants that occur in a list of configured entries.
KindsOf(list) == {list[k].variant : k \in 1..Len(list)}

\* How many entries of a list are of variant v.
CountOf(list, v) == Cardinality({k \in 1..Len(list) : list[k].variant = v})

\* C11: registry totality: get_funcs is defined for every variant of
\* ProbeConfig; the pair it returns carries the label of the entry unchanged
\* and the probe of the ProbeType of the same name as the variant, and every
\* entry of a configuration is resolved.
C11_RegistryTotality ==
    /\ \A k \in 1..Len(cfg.resolved) :
            /\ cfg.resolved[k].title = cfg.probes[k].label
            /\ cfg.resolved[k].probe = cfg.probes[k].variant
            /\ cfg.resolved[k].probe \in Range(ProbeConfig)
    /\ cfg.pc = "done" => Len(cfg.resolved) = Len(cfg.probes)

C11_Witness ==
    /\ cfg.pc = "done"
    /\ cfg.preset = "file"
    /\ cfg.probes = <<PCfg("Distro", "My Label")>>
    /\ cfg.resolved = <<[title |-> "My Label", probe |-> "Distro"]>>

\* C12: the "all" preset holds an entry of every variant of ProbeConfig, each
\* exactly once, and the kind of every entry of the neofetch and macchina
\* presets is one of the kinds of the "all" preset.
C12_AllPresetComplete ==
    cfg.pc # "select" =>
        /\ cfg.preset = "all" =>
                \A v \in Range(ProbeConfig) : CountOf(cfg.probes, v) = 1
        /\ cfg.preset \in {"neofetch", "macchina"} =>
                KindsOf(cfg.probes) \subseteq KindsOf(default_all)

\* The entries of a list other than the operating-system ones, in order.
OtherEntries(list) == SelectSeq(list, LAMBDA p : p.variant \notin {"OS", "Distro"})

\* C13: the macchina preset holds one operating-system entry chosen by the
\* platform: a Distro entry and no OS entry on linux, an OS entry and no
\* Distro entry on macos and windows; its other entries, and their order,
\* are those of every other platform.
C13_PlatformEntry ==
    (cfg.pc # "select" /\ cfg.preset = "macchina") =>
        /\ cfg.target_os = "linux" =>
                (CountOf(cfg.probes, "Distro") = 1 /\ CountOf(cfg.probes, "OS") = 0)
        /\ cfg.target_os \in {"macos", "windows"} =>
                (CountOf(cfg.probes, "OS") = 1 /\ CountOf(cfg.probes, "Distro") = 0)
        /\ \A t \in TargetOS :
                OtherEntries(cfg.probes) = OtherEntries(default_macchina(t))
        /\ Len(OtherEntries(cfg.probes)) = 13

C13_Witness ==
    /\ cfg.pc = "done"
    /\ cfg.preset = "macchina"
    /\ cfg.target_os = "windows"
    /\ cfg.probes[4] = PCfg("OS", "OS")
    /\ cfg.probes[5] = PCfg("Packages", "Packages")
    /\ Len(cfg.probes) = 14

(***************************************************************************)
(* Platform handle accessors (probe.rs).  Each accessor owns one static    *)
(* OnceLock cell and calls get_or_init(X::new) on it.  A caller that finds *)
(* the cell set returns its value; the caller that finds it empty runs the *)
(* initialiser, stores the handle and returns it; a caller that finds an   *)
(* initialisation under way blocks until the cell is set.  A handle is     *)
(* named by the run of the initialiser that made it (1 for the first run). *)
(***************************************************************************)
NumThreads == 2
MaxCalls == 1

Threads == 1..NumThreads

Accessors ==
    {"battery_readout", "kernel_readout", "memory_readout", "general_readout",
     "product_readout", "package_readout", "network_readout"}

\* Faulty variant of RunsInit: a caller that finds the initialisation of
\* another caller under way runs the initialiser too.
RunsInit_unlessSet(state) == state # "set"

\* get_or_init: the caller runs the initialiser exactly when the cell is empty.
RunsInit(state) == state = "empty"

OnceInit ==
    /\ RenderIdle
    /\ cfg = "idle"
    /\ fmt = "idle"
    /\ main = "idle"
    /\ once = [cell |-> [a \in Accessors |-> [state |-> "empty", value |-> 0]],
               inits |-> [a \in Accessors |-> 0],
               thread |-> [t \in Threads |-> [pc |-> "idle", acc |-> "", done |-> 0]],
               returned |-> [a \in Accessors |-> {}],
               blocked |-> [a \in Accessors |-> FALSE]]

\* Thread t calls accessor a.
CallAccessor(t, a) ==
    /\ once.thread[t].pc = "idle"
    /\ once.thread[t].done < MaxCalls
    /\ LET state == once.cell[a].state
       IN  CASE state = "set" ->
                    once' = [once EXCEPT
                                !.returned[a] = @ \cup {once.cell[a].value},
                                !.thread[t].done = @ + 1]
             [] RunsInit(state) ->
                    once' = [once EXCEPT
                                !.cell[a].state = "running",
                                !.thread[t] = [pc |-> "init", acc |-> a, done |-> @.done]]
             [] OTHER ->
                    once' = [once EXCEPT
                                !.blocked[a] = TRUE,
                                !.thread[t] = [pc |-> "wait", acc |-> a, done |-> @.done]]
    /\ UNCHANGED <<render_vars, cfg, fmt, main>>

\* Thread t finishes X::new, stores the handle and returns it.
Initialise(t) ==
    /\ once.thread[t].pc = "init"
    /\ LET a == once.thread[t].acc
           handle == once.inits[a] + 1
       IN  once' = [once EXCEPT
                        !.inits[a] = handle,
                        !.cell[a] = [state |-> "set", value |-> handle],
                        !.returned[a] = @ \cup {handle},
                        !.thread[t] = [pc |-> "idle", acc |-> "", done |-> @.done + 1]]
    /\ UNCHANGED <<render_vars, cfg, fmt, main>>

\* Thread t, blocked on a cell, finds it set and returns its value.
Wake(t) ==
    /\ once.thread[t].pc = "wait"
    /\ LET a == once.thread[t].acc
       IN  /\ once.cell[a].state = "set"
           /\ once' = [once EXCEPT
                            !.returned[a] = @ \cup {once.cell[a].value},
                            !.thread[t] = [pc |-> "idle", acc |-> "", done |-> @.done + 1]]
    /\ UNCHANGED <<render_vars, cfg, fmt, main>>

OnceNext ==
    \/ \E t \in Threads, a \in Accessors : CallAccessor(t, a)
    \/ \E t \in Threads : Initialise(t)
    \/ \E t \in Threads : Wake(t)

OnceSpec == OnceInit /\ [][OnceNext]_vars

\* C15: under every interleaving of the callers, the initialiser of each
\* accessor has run at most once, every call of the accessor that has
\* returned gave the one handle it made, and the cell, once set, holds that
\* handle.
C15_InitOnce ==
    \A a \in Accessors :
        /\ once.inits[a] <= 1
        /\ Cardinality(once.returned[a]) <= 1
        /\ once.cell[a].state = "set" => once.cell[a].value = 1
        /\ once.returned[a] # {} =>
                (once.cell[a].state = "set" /\ once.returned[a] = {once.cell[a].value})

C15_Witness ==
    /\ once.inits["general_readout"] = 1
    /\ once.blocked["general_readout"]
    /\ once.returned["general_readout"] = {1}
    /\ \A t \in Threads : once.thread[t].pc = "idle" /\ once.thread[t].done = MaxCalls

(***************************************************************************)
(* Formatting one value.  A value of a numeric kind is given to the        *)
(* formatter of each draw function: "Neofetch" and "Macchina" are the two  *)
(* probe_config_to_string functions, "MacchinaEarly" is ProbeValue's       *)
(* to_string.  The counts are those the disk and memory readouts return.   *)
(***************************************************************************)
DiskCases ==
    { Disk(U64(465, 710051840), U64(931, 346361856)),  \* 500000000000 of 1000000000000
      Disk(U64(0, 0), U64(931, 346361856)),
      Disk(U64(111, 5), U64(111, 5)),
      Disk(U64(1, 536870911), U64(2, 0)),               \* 1.5 GiB less one byte, of 2 GiB
      Disk(U64(0, 1000), U64(0, 4000)),
      Disk(U64(0, 1), U64(931, 346361856)),
      Disk(U64(931, 346361855), U64(931, 346361856)),
      Disk(U64(0, 0), U64(0, 0)) }

MemoryCases ==
    { Memory(1572864, 16777216), Memory(8123456, 16314508),
      Memory(0, 16777216), Memory(3400000, 8000000) }

BatteryCases == {Battery(b) : b \in {0, 5, 50, 86, 99, 100, 101, 255}}

CPUUsageCases == {CPUUsage(u) : u \in {0, 7, 12, 99, 100}}

\* Uptime values, one for each case of UptimeCases.
UptimeValues == {Uptime(secs) : secs \in UptimeCases}

LocalIPCases ==
    { LocalIP(<<>>), LocalIP(<<"10.0.0.5">>), LocalIP(<<"10.0.0.5", "192.168.1.20">>),
      LocalIP(<<"10.0.0.5", "192.168.1.20", "fe80::1">>) }

FormatStyles == {"Neofetch", "Macchina", "MacchinaEarly"}

FormatInit ==
    /\ RenderIdle
    /\ cfg = "idle"
    /\ once = "idle"
    /\ main = "idle"
    /\ \E style \in FormatStyles,
          value \in DiskCases \cup MemoryCases \cup BatteryCases \cup CPUUsageCases
                        \cup LocalIPCases \cup UptimeValues :
            fmt = [pc |-> "value", style |-> style, value |-> value, text |-> "",
                   results |-> <<>>]

\* The formatter is applied to the value; results is what the draw loop
\* makes of a probe returning Ok(Single(value)).
Format ==
    /\ fmt.pc = "value"
    /\ fmt' = [fmt EXCEPT !.pc = "text",
                          !.text = FormatValue(fmt.style, fmt.value),
                          !.results = Results(fmt.style, Single(fmt.value))]
    /\ UNCHANGED <<render_vars, cfg, once, main>>

FormatNext == Format

FormatSpec == FormatInit /\ [][FormatNext]_vars

(***************************************************************************)
(* Exact arithmetic on u64 counts, for stating what a text should show.    *)
(* A count is held in three limbs of base 2^15.                            *)
(***************************************************************************)
Limbs(x) == <<x.hi, x.lo \div Pow2(15), x.lo % Pow2(15)>>

NormLimbs(t) ==
    LET mid == t[2] + t[3] \div Pow2(15)
    IN  <<t[1] + mid \div Pow2(15), mid % Pow2(15), t[3] % Pow2(15)>>

Times(c, x) == NormLimbs(<<c * Limbs(x)[1], c * Limbs(x)[2], c * Limbs(x)[3]>>)

SumLimbs(a, b) == NormLimbs(<<a[1] + b[1], a[2] + b[2], a[3] + b[3]>>)

LessEq(a, b) ==
    \/ a[1] < b[1]
    \/ a[1] = b[1] /\ a[2] < b[2]
    \/ a[1] = b[1] /\ a[2] = b[2] /\ a[3] <= b[3]

\* used / total * 100 rounded to the nearest whole number, for
\* 0 <= used <= total and total > 0.
ExactPercent(used, total) ==
    LET s == SumLimbs(Times(200, used), Limbs(total))
    IN  CHOOSE p \in 0..100 :
            LessEq(Times(2 * p, total), s) /\ ~LessEq(Times(2 * p + 2, total), s)

\* x / 2^30 rounded to the nearest whole number.
ExactGiB(x) == x.hi + (IF x.lo >= Pow2(29) THEN 1 ELSE 0)

\* C18: every formatter renders a Disk value of used and total bytes as
\* "<U> G / <T> G (<P>%)" with U and T the counts in GiB rounded to the
\* nearest whole number and P the nearest whole percentage of used in total;
\* 500000000000 of 1000000000000 bytes gives "466 G / 931 G (50%)".
C18_DiskFormat ==
    (fmt.pc = "text" /\ fmt.value.kind = "Disk" /\ fmt.value.total # U64(0, 0)) =>
        /\ fmt.text =
                ToString(ExactGiB(fmt.value.used)) \o " G / "
                    \o ToString(ExactGiB(fmt.value.total)) \o " G ("
                    \o ToString(ExactPercent(fmt.value.used, fmt.value.total)) \o "%)"
        /\ fmt.value = Disk(U64(465, 710051840), U64(931, 346361856)) =>
                fmt.text = "466 G / 931 G (50%)"

\* A count of tenths as a number with one decimal place; a whole number may
\* be shown with or without its ".0".
OneDecimal(t) == {ToString(t \div 10) \o "." \o ToString(t % 10), TenthsText(t)}

\* The texts "<used> <unit> / <total> <unit>" with each count divided by
\* per and rounded to one decimal place.
MemoryTexts(value, per, unit) ==
    {u \o " " \o unit \o " / " \o t \o " " \o unit :
        u \in OneDecimal(RoundDiv(10 * value.used.lo, per)),
        t \in OneDecimal(RoundDiv(10 * value.total.lo, per))}

\* C19: both display strategies show a Memory value as the used and total
\* counts converted to a larger unit, GiB in the neofetch strategy and GB in
\* the macchina strategy, each rounded to one decimal place.
C19_MemoryOneDecimal ==
    (fmt.pc = "text" /\ fmt.value.kind = "Memory") =>
        /\ fmt.style = "Neofetch" => fmt.text \in MemoryTexts(fmt.value, Pow2(20), "GiB")
        /\ fmt.style = "Macchina" => fmt.text \in MemoryTexts(fmt.value, 1000000, "GB")

\* C20: in both display strategies a CPU usage u is shown as "u%" and a
\* battery level b below 100 as "b%"; a battery level of 100 or more is
\* shown as "Full" in the macchina strategy and as "100%" in the neofetch
\* strategy.
C20_PercentScalars ==
    (fmt.pc = "text" /\ fmt.style \in {"Neofetch", "Macchina"}) =>
        /\ fmt.value.kind = "CPUUsage" => fmt.text = ToString(fmt.value.n) \o "%"
        /\ (fmt.value.kind = "Battery" /\ fmt.value.n < 100) =>
                fmt.text = ToString(fmt.value.n) \o "%"
        /\ (fmt.value.kind = "Battery" /\ fmt.value.n >= 100) =>
                fmt.text = (IF fmt.style = "Macchina" THEN "Full" ELSE "100%")

\* C21: every formatter renders a LocalIP value as one single line: the
\* addresses in order, joined by ", "; one address gives that address alone
\* and no address the empty text; never one line per address.
C21_LocalIPOneLine ==
    (fmt.pc = "text" /\ fmt.value.kind = "LocalIP") =>
        LET ips == fmt.value.local_ip
        IN  /\ Len(ips) = 0 => fmt.text = ""
            /\ Len(ips) = 1 => fmt.text = ips[1]
            /\ Len(ips) = 2 => fmt.text = ips[1] \o ", " \o ips[2]
            /\ Len(ips) = 3 => fmt.text = ips[1] \o ", " \o ips[2] \o ", " \o ips[3]
            /\ fmt.results = <<fmt.text>>

C21_Witness ==
    /\ fmt.pc = "text"
    /\ fmt.style = "Neofetch"
    /\ fmt.value = LocalIP(<<"10.0.0.5", "192.168.1.20", "fe80::1">>)
    /\ fmt.results = <<"10.0.0.5, 192.168.1.20, fe80::1">>

PartIndices(part) == {k \in DOMAIN out : out[k].part = part}

\* C22: in a finished neofetch draw the title line "username@hostname" is
\* printed exactly when the title flag is on; an underline is printed only
\* directly below a printed title line and is len(username) + 1 +
\* len(hostname) dashes; both come before every metric line.
C22_TitleUnderline ==
    (renderer = "Neofetch" /\ pc = "done") =>
        /\ Cardinality(PartIndices("title")) = (IF config.title THEN 1 ELSE 0)
        /\ \A k \in PartIndices("title") :
                out[k].text = platform.username.val \o "@" \o platform.hostname.val
        /\ \A k \in PartIndices("underline") :
                /\ k - 1 \in PartIndices("title")
                /\ out[k].text =
                      Repeat("-", Len(platform.username.val) + 1 + Len(platform.hostname.val))
        /\ \A k \in PartIndices("title") \cup PartIndices("underline") :
                \A j \in PartIndices("metric") : k < j

(***************************************************************************)
(* main (src/main.rs) and Config::generate_default (src/config.rs).        *)
(* main holds the command line, the file at the configuration path, the   *)
(* position in main, the configuration selected, the renderer that drew,   *)
(* the lines printed and the value main returns.                           *)
(***************************************************************************)
\* Config::Neofetch(..) / Config::Macchina(..) with the list it was built from
ConfigOf(r, list) == [renderer |-> r, probes |-> list]

NoConfig == ConfigOf("None", "none")

Config_default_neofetch == ConfigOf("Neofetch", "default")

Config_default_neofetch_all == ConfigOf("Neofetch", "all")

Config_default_macchina == ConfigOf("Macchina", "default")

Config_default_macchina_all == ConfigOf("Macchina", "all")

Config_default_all == Config_default_neofetch_all

\* Faulty variant of Config_default: the macchina preset.
Config_default_asMacchina == Config_default_macchina

\* impl Default for Config
Config_default == Config_default_neofetch

\* The file at a path: whether it exists ("yes", "no", or "unknown" when the
\* metadata cannot be read), whether it can be read, and its text: TOML of a
\* configuration, or text that does not parse.
File(exists, readable, toml, c) ==
    [exists |-> exists, readable |-> readable, toml |-> toml, config |-> c]

NoFile == File("no", FALSE, FALSE, NoConfig)

\* toml::to_string(self), then std::fs::write(path, toml)
Written(c) == File("yes", TRUE, TRUE, c)

MOk(c) == [ok |-> TRUE, val |-> c, err |-> "None"]

MErr(e) == [ok |-> FALSE, val |-> NoConfig, err |-> e]

\* Config::from_file: read_to_string(path)?, toml::from_str; the override
\* is not used.
Config_from_file(file, renderer_override) ==
    IF ~file.readable THEN MErr("Io")
    ELSE IF ~file.toml THEN MErr("Toml")
    ELSE MOk(file.config)

\* Faulty variant of Exists: only a file that holds TOML counts.
Exists_ifToml(file) == file.exists = "yes" /\ file.toml

\* Path::exists: false when the metadata cannot be read
Exists(file) == file.exists = "yes"

\* Path::try_exists
TryExists(file) ==
    CASE file.exists = "yes" -> [ok |-> TRUE, val |-> TRUE]
      [] file.exists = "no" -> [ok |-> TRUE, val |-> FALSE]
      [] OTHER -> [ok |-> FALSE, val |-> FALSE]

\* Config::to_file on the file at the path: std::fs::write replaces the
\* text, or fails and leaves the file as it was.  A path whose metadata
\* cannot be read cannot be opened for writing either.
ToFile(file, c, write_ok) ==
    IF write_ok /\ file.exists # "unknown"
    THEN [ok |-> TRUE, file |-> Written(c)]
    ELSE [ok |-> FALSE, file |-> file]

Commands == {"None", "Generate", "ConfigPath"}

Args == [all : BOOLEAN, neofetch : BOOLEAN, macchina : BOOLEAN, config : BOOLEAN,
         command : Commands,
         g_all : BOOLEAN, g_neofetch : BOOLEAN, g_macchina : BOOLEAN]

\* The files that may be at the configuration path when main starts.
Files ==
    { NoFile, File("unknown", FALSE, FALSE, NoConfig),
      File("yes", FALSE, FALSE, NoConfig), File("yes", TRUE, FALSE, NoConfig),
      Written(ConfigOf("Neofetch", "file")), Written(ConfigOf("Macchina", "file")) }

\* Inputs no step of the run reads are pinned to one value.
MainInit ==
    /\ RenderIdle
    /\ cfg = "idle"
    /\ once = "idle"
    /\ fmt = "idle"
    /\ \E op \in {"main", "generate_default"}, args \in Args, file \in Files,
          config_dir \in BOOLEAN, dir_exists \in BOOLEAN, mkdir_ok \in BOOLEAN,
          write_ok \in BOOLEAN, draw_ok \in BOOLEAN :
            /\ op = "generate_default" =>
                    /\ args.command = "None" /\ config_dir /\ draw_ok
            /\ args.command # "None" \/ op = "generate_default" =>
                    /\ ~args.all /\ ~args.neofetch /\ ~args.macchina /\ ~args.config
                    /\ draw_ok
            /\ args.command # "Generate" =>
                    /\ ~args.g_all /\ ~args.g_neofetch /\ ~args.g_macchina
                    /\ dir_exists
            /\ args.command = "None" /\ op = "main" => write_ok
            /\ args.command = "ConfigPath" => write_ok /\ file = NoFile
            /\ dir_exists => mkdir_ok
            /\ ~dir_exists => file = NoFile
            /\ ~config_dir /\ ~args.config => file = NoFile
            /\ main = [op |-> op, args |-> args, file |-> file,
                       config_dir |-> config_dir, dir_exists |-> dir_exists,
                       mkdir_ok |-> mkdir_ok, write_ok |-> write_ok,
                       draw_ok |-> draw_ok,
                       pc |-> "start", config |-> NoConfig, read |-> FALSE,
                       drew |-> "None", stdout |-> <<>>, ret |-> "Running",
                       err |-> "None"]

Return(m, ret_, err_) == [m EXCEPT !.pc = "done", !.ret = ret_, !.err = err_]

Println(m, text) == [m EXCEPT !.stdout = Append(m.stdout, text)]

\* Cli::parse(): the groups "setting" (config, all), "renderer" (neofetch,
\* macchina) and "preset" (generate's neofetch, macchina) take one argument
\* at most; a command line with two is rejected and the process exits.
CliParse ==
    /\ main.op = "main"
    /\ main.pc = "start"
    /\ LET a == main.args
       IN  main' =
             IF \/ a.config /\ a.all
                \/ a.neofetch /\ a.macchina
                \/ a.g_neofetch /\ a.g_macchina
             THEN Return(main, "UsageError", "ArgumentConflict")
             ELSE [main EXCEPT !.pc = CASE a.command = "Generate" -> "generate"
                                      [] a.command = "ConfigPath" -> "config_path"
                                      [] OTHER -> "select"]
    /\ UNCHANGED <<render_vars, cfg, once, fmt>>

\* Command::Generate
Generate ==
    /\ main.pc = "generate"
    /\ LET a == main.args
           default_config ==
               IF a.g_neofetch
               THEN (IF a.g_all THEN Config_default_neofetch_all
                     ELSE Config_default_neofetch)
               ELSE IF a.g_macchina
               THEN (IF a.g_all THEN Config_default_macchina_all
                     ELSE Config_default_macchina)
               ELSE IF a.g_all THEN Config_default_all
               ELSE Config_default
           made == IF main.dir_exists THEN main
                   ELSE Println([main EXCEPT !.dir_exists = TRUE],
                                "Config directory created successfully")
           written == ToFile(main.file, default_config, main.write_ok)
       IN  main' =
             IF ~main.config_dir
             THEN Return(main, "Panic", "Could not determine config directory")
             ELSE IF ~main.dir_exists /\ ~main.mkdir_ok
             THEN Return(main, "Err", "Io")
             ELSE IF ~TryExists(main.file).ok
             THEN Return(made, "Err", "Io")
             ELSE IF TryExists(main.file).val
             THEN Return(Println(made, "Config file already exists, skipping generation"),
                         "Ok", "None")
             ELSE IF ~written.ok
             THEN Return(made, "Err", "Io")
             ELSE Return(Println([made EXCEPT !.file = written.file],
                                 "Config file generated successfully"),
                         "Ok", "None")
    /\ UNCHANGED <<render_vars, cfg, once, fmt>>

\* Command::ConfigPath
ConfigPath ==
    /\ main.pc = "config_path"
    /\ main' = IF ~main.config_dir
               THEN Return(main, "Panic", "Could not determine config directory")
               ELSE Return(Println(main, "config.toml"), "Ok", "None")
    /\ UNCHANGED <<render_vars, cfg, once, fmt>>

\* let config = if args.all { .. } else { .. };
MainSelect ==
    /\ main.pc = "select"
    /\ LET a == main.args
           renderer_override == IF a.neofetch THEN "Neofetch"
                                ELSE IF a.macchina THEN "Macchina"
                                ELSE "None"
           loaded == Config_from_file(main.file, renderer_override)
       IN  main' =
             IF a.all
             THEN [main EXCEPT !.pc = "draw",
                               !.config = IF a.neofetch THEN Config_default_neofetch_all
                                          ELSE IF a.macchina
                                          THEN Config_default_macchina_all
                                          ELSE Config_default_all]
             ELSE IF ~a.config /\ ~main.config_dir
             THEN Return(main, "Panic", "Could not determine config directory")
             ELSE IF TryExists(main.file).ok /\ TryExists(main.file).val
             THEN IF loaded.ok
                  THEN [main EXCEPT !.pc = "draw", !.read = TRUE,
                                    !.config = loaded.val]
                  ELSE Return([main EXCEPT !.read = TRUE], "Err", loaded.err)
             ELSE [main EXCEPT !.pc = "draw", !.config = Config_default]
    /\ UNCHANGED <<render_vars, cfg, once, fmt>>

\* match config { Config::Neofetch(c) => NeofetchRenderer::new(c).draw()?,
\*                Config::Macchina(c) => MacchinaRenderer::new(c).draw()? }
MainDraw ==
    /\ main.pc = "draw"
    /\ LET drawn == [main EXCEPT !.drew = main.config.renderer]
       IN  main' = IF main.draw_ok THEN Return(drawn, "Ok", "None")
                   ELSE Return(drawn, "Err", "Renderer")
    /\ UNCHANGED <<render_vars, cfg, once, fmt>>

\* Config::generate_default(path)
GenerateDefault ==
    /\ main.op = "generate_default"
    /\ main.pc = "start"
    /\ LET written == ToFile(main.file, Config_default, main.write_ok)
       IN  main' =
             IF Exists(main.file)
             THEN Return(main, "Err", "AlreadyExists")
             ELSE IF ~written.ok
             THEN Return(main, "Err", "Io")
             ELSE Return([main EXCEPT !.file = written.file], "Ok", "None")
    /\ UNCHANGED <<render_vars, cfg, once, fmt>>

MainNext ==
    \/ CliParse
    \/ Generate
    \/ ConfigPath
    \/ MainSelect
    \/ MainDraw
    \/ GenerateDefault

MainSpec == MainInit /\ [][MainNext]_vars

(***************************************************************************)
(* Properties of main and of configuration generation.                     *)
(***************************************************************************)
\* C23: without a subcommand the renderer flags select the renderer that
\* draws: --macchina the Macchina renderer and --neofetch the Neofetch
\* renderer, with or without --all, with or without a configuration file,
\* whatever renderer a loaded configuration names.
C23_RendererFlags ==
    (main.args.command = "None" /\ main.drew # "None") =>
        /\ main.args.macchina => main.drew = "Macchina"
        /\ main.args.neofetch => main.drew = "Neofetch"

\* The step is a call of Config::generate_default.
IsGenerateDefault == main.op = "generate_default" /\ main.pc = "start"

\* The step is the generate command.
IsGenerate == main.pc = "generate"

SkipMessage == "Config file already exists, skipping generation"

MainReturned == main.op = "main" /\ main.args.command = "None" /\ main.pc = "done"

\* The path of the configuration file is known: --config names it, or
\* Config::get_config_dir() returns a directory.
PathKnown == main.args.config \/ main.config_dir

\* What C30 says of a returned run.
ConfigSelection ==
    /\ main.args.all =>
            /\ main.config.probes = "all"
            /\ main.drew = main.config.renderer
            /\ ~main.read
    /\ (~main.args.all /\ PathKnown /\ main.file.exists # "yes") =>
            /\ main.err \in {"None", "Renderer"}
            /\ main.config = Config_default_neofetch
            /\ main.drew = "Neofetch"
            /\ ~main.read
    /\ (~main.args.all /\ PathKnown /\ main.file.exists = "yes"
            /\ (~main.file.readable \/ ~main.file.toml)) =>
            /\ main.ret = "Err"
            /\ main.err \in {"Io", "Toml"}
            /\ main.drew = "None"

UnitKey(unit) ==
    CASE unit \in {"days", "d"} -> "days"
      [] unit \in {"hours", "h"} -> "hours"
      [] unit \in {"mins", "m"} -> "minutes"
      [] OTHER -> "seconds"

\* The units a formatter shows with their numbers, whatever the labels.
Shown(units) == [k \in 1..Len(units) |-> Unit(units[k].n, UnitKey(units[k].unit))]

\* C25: the macchina-style and the neofetch-style formatter show, for every
\* uptime, the same units with the same numbers; they differ in labels and
\* separators only.
C25_SameUptimeUnits ==
    (fmt.pc = "text" /\ fmt.value.kind = "Uptime") =>
        LET uptime == fmt.value.n
        IN  /\ fmt.style = "Neofetch" =>
                    fmt.text = LongUnitsText(NeofetchUptimeUnits(uptime))
            /\ fmt.style = "Macchina" =>
                    fmt.text = ShortUnitsText(MacchinaUptimeUnits(uptime))
            /\ Shown(NeofetchUptimeUnits(uptime)) = Shown(MacchinaUptimeUnits(uptime))

\* The whole-unit decomposition of an uptime and the units selected from it.
WholeUnits(uptime) ==
    LET days == uptime \div 86400
        hours == (uptime \div 3600) % 24
        minutes == (uptime \div 60) % 60
        seconds == uptime % 60
    IN  IF days > 0
        THEN <<Unit(days, "days"), Unit(hours, "hours"), Unit(minutes, "mins")>>
        ELSE IF hours > 0
        THEN <<Unit(hours, "hours"), Unit(minutes, "mins")>>
        ELSE IF minutes > 0
        THEN <<Unit(minutes, "mins")>>
        ELSE <<Unit(seconds, "seconds")>>

\* C28: the components the neofetch-style formatter shows are the whole-unit
\* decomposition of the uptime: days = uptime div 86400, hours = (uptime div
\* 3600) mod 24, minutes = (uptime div 60) mod 60, so that days * 86400 +
\* hours * 3600 + minutes * 60 <= uptime < that sum + 60, hours is in 0..23
\* and minutes in 0..59; no uptime below 24 hours is shown with a day count
\* and none below one hour with an hour count.
C28_WholeUnitComponents ==
    (fmt.pc = "text" /\ fmt.value.kind = "Uptime" /\ fmt.style \in {"Neofetch", "MacchinaEarly"}) =>
        LET uptime == fmt.value.n
            days == NeofetchDays(uptime)
            hours == NeofetchHours(uptime)
            minutes == NeofetchMinutes(uptime)
            sum == days * 86400 + hours * 3600 + minutes * 60
        IN  /\ fmt.text = LongUnitsText(WholeUnits(uptime))
            /\ sum <= uptime /\ uptime < sum + 60
            /\ hours \in 0..23 /\ minutes \in 0..59
            /\ uptime < 86400 => days = 0
            /\ uptime < 3600 => (days = 0 /\ hours = 0)

(***************************************************************************)
(* Properties of the macchina-style label column.                          *)
(***************************************************************************)
\* The length of the longest configured label, 0 when none is configured.
LongestLabel ==
    CHOOSE n \in {0} \cup {Len(probe_list[e].title) : e \in 1..Len(probe_list)} :
        \A e \in 1..Len(probe_list) : n >= Len(probe_list[e].title)

\* C26: the macchina-style draw pads every label to one width, the longest
\* label's length + 2 or 12 if that is larger, taken over all configured
\* entries, those whose probe fails included; with no entry the width is 12
\* and draw prints only the blank lines and the art rows.
C26_LabelColumn ==
    renderer \in {"Macchina", "MacchinaEarly"} =>
        LET width == IF LongestLabel + 2 > 12 THEN LongestLabel + 2 ELSE 12
        IN  /\ pc # "new" => title_width(probe_list) = width
            /\ \A k \in 1..Len(out) :
                    IsMetric(out[k]) =>
                        LET label == probe_list[out[k].entry].title
                            art == IF renderer = "MacchinaEarly" THEN ""
                                   ELSE (IF out[k].art > 0 THEN ASCII_ART[out[k].art]
                                         ELSE ASCII_ART_FILLER) \o "    "
                        IN  /\ Len(out[k].title) = width
                            /\ out[k].title = label \o Repeat(" ", width - Len(label))
                            /\ out[k].text = art \o out[k].title \o "-  " \o out[k].value
            /\ (probe_list = <<>> /\ pc = "done") =>
                    /\ width = 12
                    /\ \A k \in 1..Len(out) : out[k].part \in {"blank", "art"}

\* The longest label belongs to an entry whose probe failed; the entry
\* printed is padded to that label's length + 2.
C26_Witness ==
    /\ renderer = "Macchina"
    /\ pc = "done"
    /\ probe_list = << [title |-> "Shell", probe |-> "shell"],
                       [title |-> "Text Editor", probe |-> "editor"] >>
    /\ Len(MetricLines) = 1
    /\ MetricLines[1].title = "Shell        "

(***************************************************************************)
(* Properties of the error conversion.                                     *)
(***************************************************************************)
\* The calls of a probe whose readout failed: the GPU probe in a run where
\* the GPU readout returns an error.
FailedReadoutCalls ==
    {k \in 1..Len(calls) : probe_list[calls[k].entry].probe = "gpu" /\ ~platform.gpus.ok}

\* C27: a ReadoutError becomes the ProbeError of its own kind:
\* MetricNotAvailable -> MetricsUnavailable, NotImplemented -> Unimplemented,
\* Other(s) -> Other(s), Warning(s) -> Warning(s), the reason string
\* unchanged; no two kinds give the same kind of ProbeError.
C27_ErrorConversion ==
    /\ \A k \in FailedReadoutCalls :
            LET e == platform.gpus.err
                p == calls[k].err
            IN  /\ e.kind = "MetricNotAvailable" => p.kind = "MetricsUnavailable"
                /\ e.kind = "NotImplemented" => p.kind = "Unimplemented"
                /\ e.kind = "Other" => p.kind = "Other"
                /\ e.kind = "Warning" => p.kind = "Warning"
                /\ p.msg = e.msg
    /\ \A d, e \in ReadoutErrors :
            From_ReadoutError(d).kind = From_ReadoutError(e).kind => d.kind = e.kind

C27_Witness ==
    /\ platform.gpus = RErr([kind |-> "Warning", msg |-> "stale"])
    /\ FailedReadoutCalls # {}
    /\ \A k \in FailedReadoutCalls : calls[k].err = [kind |-> "Warning", msg |-> "stale"]

(***************************************************************************)
(* Properties of the disk percentage.                                      *)
(***************************************************************************)
\* text ends with suffix
EndsWith(text, suffix) ==
    /\ Len(text) >= Len(suffix)
    /\ SubSeq(text, Len(text) - Len(suffix) + 1, Len(text)) = suffix

\* C29: for a Disk value with 0 <= used <= total, total = 0 included, every
\* formatter completes and the percentage it shows is a whole number in
\* 0..100; it is 0 when used = 0 and 100 when used = total > 0.
C29_DiskPercentRange ==
    (fmt.pc = "text" /\ fmt.value.kind = "Disk"
        /\ LessEq(Limbs(fmt.value.used), Limbs(fmt.value.total))) =>
        \E p \in 0..100 :
            /\ EndsWith(fmt.text, " G (" \o ToString(p) \o "%)")
            /\ fmt.value.used = U64(0, 0) => p = 0
            /\ (fmt.value.used = fmt.value.total /\ fmt.value.total # U64(0, 0)) => p = 100

C29_Witness ==
    /\ fmt.pc = "text"
    /\ fmt.value = Disk(U64(0, 0), U64(0, 0))
    /\ fmt.style = "Macchina"
    /\ fmt.text = "0 G / 0 G (0%)"

====
